---- MODULE Spec2Model ----
(***************************************************************************)
(* Model of orderbook-pathfinder, package p2 (virtual order book over a    *)
(* graph of trading pairs) as a state machine.                             *)
(*                                                                         *)
(* float64 prices and amounts are modelled as exact rationals <<n, d>>     *)
(* with d > 0 in lowest terms; every arithmetic step of the code (1.0/p,   *)
(* v*p, products, min, subtraction, division) is carried out on them.      *)
(* Go map iteration order and the order sort.Slice leaves equal keys in    *)
(* are nondeterministic choices.                                           *)
(***************************************************************************)
EXTENDS Integers, Sequences, FiniteSets, TLC

(***************************************************************************)
(* Bounds of the model.                                                    *)
(***************************************************************************)
\* largest number of input pairs of one request
MaxPairs == 4
\* targets executed are 0 .. MaxTarget steps of TargetStep, and one negative
MaxTarget == 3
\* largest number of input pairs of a buildGraph call checked on its own
MaxGraphPairs == 3
\* longest level list invertOrders is applied to on its own
MaxInvertLevels == 2
MaxPathPairs == 7
MaxDirectLevels == 2
MaxMergeLevels == 3
MaxOrderLevels == 2
MaxRoutePairs == 3

(***************************************************************************)
(* Program constants.                                                      *)
(***************************************************************************)
MAX_LEVELS_PER_PAIR == 5
MAX_PATH_DEPTH == 5

(***************************************************************************)
(* float64 arithmetic, as exact rationals.                                 *)
(***************************************************************************)
Abs(x) == IF x < 0 THEN -x ELSE x

RECURSIVE GCD(_, _)
GCD(a, b) == IF b = 0 THEN a ELSE GCD(b, a % b)

\* the rational n/d in lowest terms with a positive denominator (d # 0)
Rat(n, d) ==
    LET g == GCD(Abs(n), Abs(d))
        s == IF d < 0 THEN -1 ELSE 1
    IN  <<(s * n) \div g, (s * d) \div g>>

Num(r) == r[1]
Den(r) == r[2]
Zero == <<0, 1>>
One == <<1, 1>>
\* NaN (math.NaN()) and +Inf (math.Inf(1)) are values apart from every rational
NaN == <<0, 0>>
PosInf == <<1, 0>>

\* products and sums cancel common factors first, as a/b * c/d = (a/d') * (c/b')
RMul(a, b) ==
    LET g1 == GCD(Abs(Num(a)), Den(b))
        g2 == GCD(Abs(Num(b)), Den(a))
    IN  Rat((Num(a) \div g1) * (Num(b) \div g2), (Den(a) \div g2) * (Den(b) \div g1))
RAdd(a, b) ==
    LET g == GCD(Den(a), Den(b))
    IN  Rat(Num(a) * (Den(b) \div g) + Num(b) * (Den(a) \div g), (Den(a) \div g) * Den(b))
RNeg(a) == <<-Num(a), Den(a)>>
RSub(a, b) == RAdd(a, RNeg(b))
\* 1 / b and a / b for b # 0
RInv(b) == Rat(Den(b), Num(b))
RDiv(a, b) == RMul(a, RInv(b))
\* a < b; +Inf is above every rational
RLess(a, b) ==
    IF a = PosInf THEN FALSE
    ELSE IF b = PosInf THEN TRUE
    ELSE LET g == GCD(Den(a), Den(b))
         IN  Num(a) * (Den(b) \div g) < Num(b) * (Den(a) \div g)
RLeq(a, b) == ~RLess(b, a)
\* math.Min
RMin(a, b) == IF RLess(b, a) THEN b ELSE a
\* math.Abs(a-b) < 1e-8 : |n/d| < 1/10^8 iff |n| <= (d-1) \div 10^8
WithinTolerance(a, b) ==
    LET r == RSub(a, b)
    IN  Abs(Num(r)) <= (Den(r) - 1) \div 100000000

(***************************************************************************)
(* Data types (Level, TradingPair, Graph).                                 *)
(***************************************************************************)
Level(p, a) == [Price |-> p, Amount |-> a]
\* a level with price pn/pd and whole amount a
Lv(pn, pd, a) == Level(Rat(pn, pd), Rat(a, 1))
TradingPair(b, q, asks, bids) ==
    [Base |-> b, Quote |-> q, AskOrders |-> asks, BidOrders |-> bids]

EmptyMap == [k \in {} |-> {}]
MinInt(a, b) == IF a < b THEN a ELSE b
\* a bug the cap could have: the list is stored whole
TakeWhole(s, n) == s

\* s[:min(len(s), n)]
Take(s, n) == SubSeq(s, 1, MinInt(Len(s), n))

\* graph[x], the nil map when x is no key
Adj(graph, x) == IF x \in DOMAIN graph THEN graph[x] ELSE EmptyMap
HasEdge(graph, x, y) == x \in DOMAIN graph /\ y \in DOMAIN graph[x]
\* if graph[x] == nil { graph[x] = make(map) }
Touch(graph, x) ==
    IF x \in DOMAIN graph THEN graph
    ELSE [k \in DOMAIN graph \cup {x} |-> IF k = x THEN EmptyMap ELSE graph[k]]
\* graph[x][y] = pair (graph[x] exists)
PutEdge(graph, x, y, pair) ==
    [graph EXCEPT ![x] =
        [k \in DOMAIN graph[x] \cup {y} |-> IF k = y THEN pair ELSE graph[x][k]]]

(***************************************************************************)
(* buildGraph and invertOrders.                                            *)
(***************************************************************************)
\* a bug invertOrders could have: the price is copied, not inverted
invertOrdersPriceKept(levels) ==
    LET F[i \in 0..Len(levels)] ==
          IF i = 0 THEN <<>>
          ELSE IF RLess(Zero, levels[i].Price)
               THEN Append(F[i-1], Level(levels[i].Price,
                                         RMul(levels[i].Amount, levels[i].Price)))
               ELSE F[i-1]
    IN  F[Len(levels)]

invertOrders(levels) ==
    LET F[i \in 0..Len(levels)] ==
          IF i = 0 THEN <<>>
          ELSE IF RLess(Zero, levels[i].Price)
               THEN Append(F[i-1], Level(RDiv(One, levels[i].Price),
                                         RMul(levels[i].Amount, levels[i].Price)))
               ELSE F[i-1]
    IN  F[Len(levels)]

\* a bug the loop body could have: the reverse edge is not rewritten when the
\* forward edge is
buildGraphPairKeepReverse(graph, pair) ==
    LET g2 == Touch(Touch(graph, pair.Base), pair.Quote)
        limitedAskOrders == Take(pair.AskOrders, MAX_LEVELS_PER_PAIR)
        limitedBidOrders == Take(pair.BidOrders, MAX_LEVELS_PER_PAIR)
        g3 == PutEdge(g2, pair.Base, pair.Quote,
                      TradingPair(pair.Base, pair.Quote, limitedAskOrders, limitedBidOrders))
    IN  IF HasEdge(g3, pair.Quote, pair.Base) THEN g3
        ELSE PutEdge(g3, pair.Quote, pair.Base,
                     TradingPair(pair.Quote, pair.Base,
                                 invertOrders(limitedBidOrders), invertOrders(limitedAskOrders)))

\* a bug the loop body could have (an earlier version of the file has it):
\* the reverse edge is inverted from the whole input lists
buildGraphPairUncappedReverse(graph, pair) ==
    LET g2 == Touch(Touch(graph, pair.Base), pair.Quote)
        limitedAskOrders == Take(pair.AskOrders, MAX_LEVELS_PER_PAIR)
        limitedBidOrders == Take(pair.BidOrders, MAX_LEVELS_PER_PAIR)
        g3 == PutEdge(g2, pair.Base, pair.Quote,
                      TradingPair(pair.Base, pair.Quote, limitedAskOrders, limitedBidOrders))
    IN  PutEdge(g3, pair.Quote, pair.Base,
                TradingPair(pair.Quote, pair.Base,
                            invertOrders(pair.BidOrders), invertOrders(pair.AskOrders)))

\* a bug the loop body could have: a pair whose edge exists already is skipped,
\* the first occurrence wins
buildGraphPairFirstWins(graph, pair) ==
    IF HasEdge(graph, pair.Base, pair.Quote) THEN graph
    ELSE LET g2 == Touch(Touch(graph, pair.Base), pair.Quote)
             limitedAskOrders == Take(pair.AskOrders, MAX_LEVELS_PER_PAIR)
             limitedBidOrders == Take(pair.BidOrders, MAX_LEVELS_PER_PAIR)
             g3 == PutEdge(g2, pair.Base, pair.Quote,
                           TradingPair(pair.Base, pair.Quote, limitedAskOrders, limitedBidOrders))
         IN  PutEdge(g3, pair.Quote, pair.Base,
                     TradingPair(pair.Quote, pair.Base,
                                 invertOrders(limitedBidOrders), invertOrders(limitedAskOrders)))

\* one iteration of the loop of buildGraph
buildGraphPair(graph, pair) ==
    LET g2 == Touch(Touch(graph, pair.Base), pair.Quote)
        limitedAskOrders == Take(pair.AskOrders, MAX_LEVELS_PER_PAIR)
        limitedBidOrders == Take(pair.BidOrders, MAX_LEVELS_PER_PAIR)
        g3 == PutEdge(g2, pair.Base, pair.Quote,
                      TradingPair(pair.Base, pair.Quote, limitedAskOrders, limitedBidOrders))
    IN  PutEdge(g3, pair.Quote, pair.Base,
                TradingPair(pair.Quote, pair.Base,
                            invertOrders(limitedBidOrders), invertOrders(limitedAskOrders)))

\* buildGraph: the loop over all pairs
buildGraph(pairList) ==
    LET F[i \in 0..Len(pairList)] ==
          IF i = 0 THEN EmptyMap ELSE buildGraphPair(F[i-1], pairList[i])
    IN  F[Len(pairList)]

(***************************************************************************)
(* findAllPaths: depth-first enumeration; the range over a Go map visits   *)
(* the neighbours in any order, so the result is one of a set of lists.    *)
(***************************************************************************)
RECURSIVE SeqPerms(_)
\* every order in which a range over a map with key set S can visit its keys
SeqPerms(S) ==
    IF S = {} THEN {<<>>}
    ELSE UNION {{<<x>> \o p : p \in SeqPerms(S \ {x})} : x \in S}

RECURSIVE findPathsRecursive(_, _, _, _, _, _)
RECURSIVE rangeNeighbours(_, _, _, _, _, _)
\* the loop "for nextToken := range graph[currentToken]" taken in the order `order`
rangeNeighbours(graph, order, targetToken, visited, currentPath, maxDepth) ==
    IF order = <<>> THEN {<<>>}
    ELSE {a \o b :
            a \in findPathsRecursive(graph, Head(order), targetToken, visited,
                                     Append(currentPath, Head(order)), maxDepth),
            b \in rangeNeighbours(graph, Tail(order), targetToken, visited,
                                  currentPath, maxDepth)}

\* a bug the depth test could have: paths of maxDepth + 1 currencies pass
findPathsRecursiveDeeper(graph, currentToken, targetToken, visited, currentPath, maxDepth) ==
    IF Len(currentPath) > maxDepth + 1 THEN {<<>>}
    ELSE IF currentToken = targetToken /\ Len(currentPath) > 1 THEN {<<currentPath>>}
    ELSE LET vis == visited \cup {currentToken}
             next == {n \in DOMAIN Adj(graph, currentToken) : n \notin vis}
         IN  UNION {rangeNeighbours(graph, order, targetToken, vis, currentPath, maxDepth) :
                      order \in SeqPerms(next)}

\* a bug the depth test could have: paths of exactly maxDepth currencies are cut
findPathsRecursiveShallower(graph, currentToken, targetToken, visited, currentPath, maxDepth) ==
    IF Len(currentPath) >= maxDepth THEN {<<>>}
    ELSE IF currentToken = targetToken /\ Len(currentPath) > 1 THEN {<<currentPath>>}
    ELSE LET vis == visited \cup {currentToken}
             next == {n \in DOMAIN Adj(graph, currentToken) : n \notin vis}
         IN  UNION {rangeNeighbours(graph, order, targetToken, vis, currentPath, maxDepth) :
                      order \in SeqPerms(next)}

\* a bug the target test could have: any path of two or more tokens is recorded
findPathsRecursiveAnyTarget(graph, currentToken, targetToken, visited, currentPath, maxDepth) ==
    IF Len(currentPath) > maxDepth THEN {<<>>}
    ELSE IF Len(currentPath) > 1 THEN {<<currentPath>>}
    ELSE LET vis == visited \cup {currentToken}
             next == {n \in DOMAIN Adj(graph, currentToken) : n \notin vis}
         IN  UNION {rangeNeighbours(graph, order, targetToken, vis, currentPath, maxDepth) :
                      order \in SeqPerms(next)}

\* the set of lists of paths findPathsRecursive can return; visited is the set
\* of tokens whose flag is true
findPathsRecursive(graph, currentToken, targetToken, visited, currentPath, maxDepth) ==
    IF Len(currentPath) > maxDepth THEN {<<>>}
    ELSE IF currentToken = targetToken /\ Len(currentPath) > 1 THEN {<<currentPath>>}
    ELSE LET vis == visited \cup {currentToken}
             next == {n \in DOMAIN Adj(graph, currentToken) : n \notin vis}
         IN  UNION {rangeNeighbours(graph, order, targetToken, vis, currentPath, maxDepth) :
                      order \in SeqPerms(next)}

findAllPaths(graph, start, end, maxDepth) ==
    findPathsRecursive(graph, start, end, {}, <<start>>, maxDepth)

(***************************************************************************)
(* Route candidates of one path and one side.                              *)
(***************************************************************************)
\* finalPrice := 1.0; for each price: finalPrice *= price
Product(prices) ==
    LET F[i \in 0..Len(prices)] == IF i = 0 THEN One ELSE RMul(F[i-1], prices[i])
    IN  F[Len(prices)]

RouteCandidate(prices, levelIndices, finalPrice, maxVolume) ==
    [prices |-> prices, levelIndices |-> levelIndices,
     finalPrice |-> finalPrice, maxVolume |-> maxVolume]

\* a bug the candidate volume could have: the Amount of the level of the
\* first hop instead of the least Amount
MinLevelVolumeFirstHop(allHopLevels, currentIndices) ==
    IF Len(currentIndices) = 0 THEN PosInf
    ELSE allHopLevels[1][currentIndices[1]].Amount

\* min over the chosen levels of their Amount, +Inf for no level
MinLevelVolume(allHopLevels, currentIndices) ==
    LET F[i \in 0..Len(currentIndices)] ==
          IF i = 0 THEN PosInf
          ELSE LET levelVolume == allHopLevels[i][currentIndices[i]].Amount
               IN  IF RLess(levelVolume, F[i-1]) THEN levelVolume ELSE F[i-1]
    IN  F[Len(currentIndices)]

RECURSIVE generateAllRouteCandidates(_, _, _, _)
RECURSIVE rangeLevels(_, _, _, _, _)
\* the loop over the levels of hop hopIndex, from level levelIdx on
rangeLevels(allHopLevels, hopIndex, levelIdx, currentPrices, currentIndices) ==
    IF levelIdx > Len(allHopLevels[hopIndex]) THEN <<>>
    ELSE generateAllRouteCandidates(allHopLevels, hopIndex + 1,
             Append(currentPrices, allHopLevels[hopIndex][levelIdx].Price),
             Append(currentIndices, levelIdx))
         \o rangeLevels(allHopLevels, hopIndex, levelIdx + 1, currentPrices, currentIndices)

\* the candidates appended, in order; hops and levels are numbered from 1
generateAllRouteCandidates(allHopLevels, hopIndex, currentPrices, currentIndices) ==
    IF hopIndex > Len(allHopLevels)
    THEN LET maxVolume == MinLevelVolume(allHopLevels, currentIndices)
         IN  IF maxVolume # PosInf /\ RLess(Zero, maxVolume)
             THEN <<RouteCandidate(currentPrices, currentIndices,
                                   Product(currentPrices), maxVolume)>>
             ELSE <<>>
    ELSE rangeLevels(allHopLevels, hopIndex, 1, currentPrices, currentIndices)

(***************************************************************************)
(* Sorting.  sort.Slice is not stable: it returns some permutation in      *)
(* which no element is followed by one that is less than it.               *)
(***************************************************************************)
\* less(i, j) of both sorts, on the prices
PriceBefore(p, q, isAsk) == IF isAsk THEN RLess(p, q) ELSE RLess(q, p)

RECURSIVE SortedIndexOrders(_, _, _)
\* the orders of the index set S in which the keys are sorted
SortedIndexOrders(keys, S, isAsk) ==
    IF S = {} THEN {<<>>}
    ELSE UNION {{<<i>> \o r : r \in SortedIndexOrders(keys, S \ {i}, isAsk)} :
                  i \in {i \in S : \A j \in S : ~PriceBefore(keys[j], keys[i], isAsk)}}

Reorder(s, order) == [k \in 1..Len(s) |-> s[order[k]]]

\* the set of results sortCandidatesByPrice can leave in candidates
sortCandidatesByPrice(candidates, isAsk) ==
    {Reorder(candidates, o) :
       o \in SortedIndexOrders([k \in 1..Len(candidates) |-> candidates[k].finalPrice],
                               1..Len(candidates), isAsk)}

(***************************************************************************)
(* generateCombinationsWithVolumeTracking: the greedy loop body.           *)
(***************************************************************************)
\* remainingVolumes[i][j] = level.Amount
initialVolumes(allHopLevels) ==
    [i \in 1..Len(allHopLevels) |->
        [j \in 1..Len(allHopLevels[i]) |-> allHopLevels[i][j].Amount]]

\* a bug the loop could have: the residuals are not looked at, the candidate's
\* creation-time maxVolume is taken
maxUsableVolumeAtCreation(remainingVolumes, candidate) == candidate.maxVolume

\* maxUsableVolume after the loop over the candidate's levels
maxUsableVolume(remainingVolumes, candidate) ==
    LET F[h \in 0..Len(candidate.levelIndices)] ==
          IF h = 0 THEN candidate.maxVolume
          ELSE LET available == remainingVolumes[h][candidate.levelIndices[h]]
               IN  IF RLess(available, F[h-1]) THEN available ELSE F[h-1]
    IN  F[Len(candidate.levelIndices)]

\* a bug the deduction could have: the old logic, every candidate on its own
deductVolumeNone(remainingVolumes, candidate, volume) == remainingVolumes

\* a bug the deduction could have: only the level of the last hop is charged
deductVolumeLastHop(remainingVolumes, candidate, volume) ==
    [h \in 1..Len(remainingVolumes) |->
        [j \in 1..Len(remainingVolumes[h]) |->
            IF h = Len(remainingVolumes) /\ candidate.levelIndices[h] = j
            THEN RSub(remainingVolumes[h][j], volume)
            ELSE remainingVolumes[h][j]]]

\* a bug the deduction could have: only the level of the first hop is charged
deductVolumeFirstHop(remainingVolumes, candidate, volume) ==
    [h \in 1..Len(remainingVolumes) |->
        [j \in 1..Len(remainingVolumes[h]) |->
            IF h = 1 /\ candidate.levelIndices[h] = j
            THEN RSub(remainingVolumes[h][j], volume)
            ELSE remainingVolumes[h][j]]]

\* remainingVolumes[hopIdx][levelIdx] -= maxUsableVolume for the candidate's levels
deductVolume(remainingVolumes, candidate, volume) ==
    [h \in 1..Len(remainingVolumes) |->
        [j \in 1..Len(remainingVolumes[h]) |->
            IF candidate.levelIndices[h] = j
            THEN RSub(remainingVolumes[h][j], volume)
            ELSE remainingVolumes[h][j]]]

PriceVolumeCombo(prices, depth) == [prices |-> prices, depth |-> depth]

\* the whole greedy loop over the sorted candidates: the combos returned
greedyLoop(allHopLevels, sortedCandidates) ==
    LET F[i \in 0..Len(sortedCandidates)] ==
          IF i = 0
          THEN [remainingVolumes |-> initialVolumes(allHopLevels), result |-> <<>>]
          ELSE LET candidate == sortedCandidates[i]
                   volume == maxUsableVolume(F[i-1].remainingVolumes, candidate)
               IN  IF RLess(Zero, volume)
                   THEN [remainingVolumes |->
                            deductVolume(F[i-1].remainingVolumes, candidate, volume),
                         result |-> Append(F[i-1].result,
                                           PriceVolumeCombo(candidate.prices, volume))]
                   ELSE F[i-1]
    IN  F[Len(sortedCandidates)].result

(***************************************************************************)
(* calculateOrdersFromPath and getAllPriceVolumeCombinations.              *)
(***************************************************************************)
ReversePath(path) == [i \in 1..Len(path) |-> path[Len(path) + 1 - i]]
\* a bug the route could have: the path is stored as enumerated on both sides
truePathAsEnumerated(path, isAsk) == path

\* the route a level of the path carries
truePath(path, isAsk) == IF isAsk THEN ReversePath(path) ELSE path

PathEdgesExist(graph, path) ==
    \A i \in 1..(Len(path) - 1) : HasEdge(graph, path[i], path[i+1])

\* a bug the lookup could have: a hop whose list of the side is empty lends
\* the list of the other side
hopLevelsOfEitherSide(graph, path, isAsk) ==
    IF Len(path) < 2 \/ ~PathEdgesExist(graph, path) THEN <<>>
    ELSE [i \in 1..(Len(path) - 1) |->
            LET asks == graph[path[i]][path[i+1]].AskOrders
                bids == graph[path[i]][path[i+1]].BidOrders
            IN  IF isAsk THEN (IF Len(asks) = 0 THEN bids ELSE asks)
                         ELSE (IF Len(bids) = 0 THEN asks ELSE bids)]

\* allHopLevels: the levels of the side of every hop; no hop when the path is
\* shorter than 2 or an edge is missing
hopLevelsOf(graph, path, isAsk) ==
    IF Len(path) < 2 \/ ~PathEdgesExist(graph, path) THEN <<>>
    ELSE [i \in 1..(Len(path) - 1) |->
            IF isAsk THEN graph[path[i]][path[i+1]].AskOrders
                     ELSE graph[path[i]][path[i+1]].BidOrders]

VirtualLevel(price, amount, route, levelPrices) ==
    [Price |-> price, Amount |-> amount, Route |-> route, LevelPrices |-> levelPrices]

\* the levels calculateOrdersFromPath builds from the combos
levelsOfCombos(combos, path, isAsk) ==
    LET F[i \in 0..Len(combos)] ==
          IF i = 0 THEN <<>>
          ELSE IF RLess(Zero, combos[i].depth)
               THEN Append(F[i-1], VirtualLevel(Product(combos[i].prices), combos[i].depth,
                                                truePath(path, isAsk), combos[i].prices))
               ELSE F[i-1]
    IN  F[Len(combos)]

(***************************************************************************)
(* sortVirtualLevels and mergeVirtualLevels.                               *)
(***************************************************************************)
\* a bug sortVirtualLevels could have: the side is ignored, always ascending
sortVirtualLevelsAscending(levels, isAsk) ==
    {Reorder(levels, o) :
       o \in SortedIndexOrders([k \in 1..Len(levels) |-> levels[k].Price],
                               1..Len(levels), TRUE)}

\* the set of results sortVirtualLevels can leave in levels
sortVirtualLevels(levels, isAsk) ==
    {Reorder(levels, o) :
       o \in SortedIndexOrders([k \in 1..Len(levels) |-> levels[k].Price],
                               1..Len(levels), isAsk)}

\* a bug mergeVirtualLevels could have: only equal prices are merged
mergeVirtualLevelsExact(levels) ==
    IF Len(levels) = 0 THEN levels
    ELSE LET F[i \in 1..Len(levels)] ==
               IF i = 1 THEN [merged |-> <<>>, current |-> levels[1]]
               ELSE LET cur == F[i-1].current
                    IN  IF levels[i].Price = cur.Price
                        THEN [merged |-> F[i-1].merged,
                              current |-> [cur EXCEPT !.Amount = RAdd(@, levels[i].Amount)]]
                        ELSE [merged |-> Append(F[i-1].merged, cur), current |-> levels[i]]
         IN  Append(F[Len(levels)].merged, F[Len(levels)].current)

\* a bug mergeVirtualLevels could have: the quantities of a run are not added
mergeVirtualLevelsNoSum(levels) ==
    IF Len(levels) = 0 THEN levels
    ELSE LET F[i \in 1..Len(levels)] ==
               IF i = 1 THEN [merged |-> <<>>, current |-> levels[1]]
               ELSE LET cur == F[i-1].current
                    IN  IF WithinTolerance(levels[i].Price, cur.Price)
                        THEN [merged |-> F[i-1].merged,
                              current |->
                                [cur EXCEPT !.Route = IF RLess(levels[i].Price, cur.Price)
                                                      THEN levels[i].Route ELSE @]]
                        ELSE [merged |-> Append(F[i-1].merged, cur), current |-> levels[i]]
         IN  Append(F[Len(levels)].merged, F[Len(levels)].current)

\* a bug mergeVirtualLevels could have: a level is compared with the level
\* just before it instead of the level the run started with
mergeVirtualLevelsAdjacent(levels) ==
    IF Len(levels) = 0 THEN levels
    ELSE LET F[i \in 1..Len(levels)] ==
               IF i = 1 THEN [merged |-> <<>>, current |-> levels[1]]
               ELSE LET cur == F[i-1].current
                    IN  IF WithinTolerance(levels[i].Price, levels[i-1].Price)
                        THEN [merged |-> F[i-1].merged,
                              current |->
                                [cur EXCEPT !.Amount = RAdd(@, levels[i].Amount),
                                            !.Route = IF RLess(levels[i].Price, cur.Price)
                                                      THEN levels[i].Route ELSE @]]
                        ELSE [merged |-> Append(F[i-1].merged, cur), current |-> levels[i]]
         IN  Append(F[Len(levels)].merged, F[Len(levels)].current)

mergeVirtualLevels(levels) ==
    IF Len(levels) = 0 THEN levels
    ELSE LET F[i \in 1..Len(levels)] ==
               IF i = 1 THEN [merged |-> <<>>, current |-> levels[1]]
               ELSE LET cur == F[i-1].current
                    IN  IF WithinTolerance(levels[i].Price, cur.Price)
                        THEN [merged |-> F[i-1].merged,
                              current |->
                                [cur EXCEPT !.Amount = RAdd(@, levels[i].Amount),
                                            !.Route = IF RLess(levels[i].Price, cur.Price)
                                                      THEN levels[i].Route ELSE @]]
                        ELSE [merged |-> Append(F[i-1].merged, cur), current |-> levels[i]]
         IN  Append(F[Len(levels)].merged, F[Len(levels)].current)

(***************************************************************************)
(* findBestRouteFromVirtualOrderbook.                                      *)
(***************************************************************************)
\* a bug the fill could have: the level is taken whole
executedWholeLevel(remainingAmount, level) == level.Amount

\* executed := math.Min(remainingAmount, level.Amount)
executed(remainingAmount, level) == RMin(remainingAmount, level.Amount)

\* a bug the loop guard could have: remainingAmount < 0 instead of <= 0
loopBreaksNegative(remainingAmount) == RLess(remainingAmount, Zero)

\* if remainingAmount <= 0 { break }
loopBreaks(remainingAmount) == RLeq(remainingAmount, Zero)

\* a bug the effective price could have: the cost is divided by the target
effectivePriceByTarget(totalCost, executedAmount, targetAmount) ==
    IF RLess(Zero, executedAmount) /\ RLess(Zero, targetAmount)
    THEN RDiv(totalCost, targetAmount)
    ELSE Zero

effectivePrice(totalCost, executedAmount, targetAmount) ==
    IF RLess(Zero, executedAmount) /\ RLess(Zero, targetAmount)
    THEN RDiv(totalCost, RMin(executedAmount, targetAmount))
    ELSE Zero

\* the pair (effective price, fills) returned
findBestRouteFromVirtualOrderbook(levels, targetAmount) ==
    IF Len(levels) = 0 THEN [price |-> NaN, route |-> <<>>]
    ELSE LET F[i \in 0..Len(levels)] ==
               IF i = 0
               THEN [remainingAmount |-> targetAmount, totalCost |-> Zero,
                     executedAmount |-> Zero, bestRoute |-> <<>>]
               ELSE LET st == F[i-1]
                        ex == executed(st.remainingAmount, levels[i])
                    IN  IF loopBreaks(st.remainingAmount) THEN st
                        ELSE [remainingAmount |-> RSub(st.remainingAmount, ex),
                              totalCost |-> RAdd(st.totalCost, RMul(ex, levels[i].Price)),
                              executedAmount |-> RAdd(st.executedAmount, ex),
                              bestRoute |-> Append(st.bestRoute,
                                  VirtualLevel(levels[i].Price, ex, levels[i].Route,
                                               levels[i].LevelPrices))]
             end == F[Len(levels)]
         IN  [price |-> effectivePrice(end.totalCost, end.executedAmount, targetAmount),
              route |-> end.bestRoute]

(***************************************************************************)
(* State.                                                                  *)
(***************************************************************************)
(***************************************************************************)
(* Problem 1 (package p1): one Ask and one Bid price per pair, the best    *)
(* route by Bellman-Ford over the logarithms of the prices.                *)
(* distances holds e^x for the float64 x the code holds: math.Log and      *)
(* math.Exp are taken as exact, so that x + log(w) < y is e^x * w < e^y,   *)
(* the distance 0 is One and +Inf stays +Inf.  Prices are > 0.             *)
(***************************************************************************)
PricePair(base, quote, ask, bid) ==
    [Base |-> base, Quote |-> quote, Ask |-> ask, Bid |-> bid]

TradingRoute(route, price) == [Route |-> route, Price |-> price]

\* p1.buildGraph: one pair of the loop
buildPriceGraphPair(g, pair) ==
    LET g1 == Touch(Touch(g, pair.Base), pair.Quote)
        g2 == PutEdge(g1, pair.Base, pair.Quote, pair)
        reversePair == PricePair(pair.Quote, pair.Base, RInv(pair.Bid), RInv(pair.Ask))
    IN  PutEdge(g2, pair.Quote, pair.Base, reversePair)

\* p1.buildGraph
buildPriceGraph(pairList) ==
    LET F[i \in 0..Len(pairList)] ==
          IF i = 0 THEN EmptyMap ELSE buildPriceGraphPair(F[i-1], pairList[i])
    IN  F[Len(pairList)]

\* a bug the weight could have: the bid side takes Bid, not 1/Bid
weightBidAsIs(pair, side) == IF side THEN pair.Ask ELSE pair.Bid

\* the weight of an edge, before math.Log
weight(pair, side) == IF side THEN pair.Ask ELSE RInv(pair.Bid)

\* distances[node]: a key that is absent reads as 0
distanceOf(dist, node) == IF node \in DOMAIN dist THEN dist[node] ELSE One

\* tracer[node]: a key that is absent reads as ""
tracerOf(trc, node) == IF node \in DOMAIN trc THEN trc[node] ELSE ""

\* distances after the initialisation: +Inf for the nodes of the graph, 0 for start
initialDistances(g, start) ==
    [node \in DOMAIN g \cup {start} |-> IF node = start THEN One ELSE PosInf]

\* the body of the inner loop for the edge u -> v
relaxEdge(g, st, u, v, side) ==
    LET relaxed == RMul(distanceOf(st.distances, u), weight(g[u][v], side))
    IN  IF distanceOf(st.distances, u) # PosInf /\ RLess(relaxed, distanceOf(st.distances, v))
        THEN [distances |-> [n \in DOMAIN st.distances \cup {v} |->
                                IF n = v THEN relaxed ELSE st.distances[n]],
              tracer |-> [n \in DOMAIN st.tracer \cup {v} |->
                                IF n = v THEN u ELSE st.tracer[n]]]
        ELSE st

\* the orders in which "for v, pair := range graph[u]" can visit the edges of u
rangeEdges(g, u) ==
    {[k \in 1..Len(o) |-> <<u, o[k]>>] : o \in SeqPerms(DOMAIN g[u])}

\* the inner loop over the edges of one node, in the order edges
relaxAll(g, st, edges, side) ==
    LET F[k \in 0..Len(edges)] ==
          IF k = 0 THEN st ELSE relaxEdge(g, F[k-1], edges[k][1], edges[k][2], side)
    IN  F[Len(edges)]

RECURSIVE tracePath(_, _, _, _, _)
\* the loop that walks tracer back from end, at most len(graph) nodes
tracePath(trc, current, pathLength, n, path) ==
    IF current # "" /\ pathLength < n
    THEN tracePath(trc, tracerOf(trc, current), pathLength + 1, n, <<current>> \o path)
    ELSE path

\* the end of bellmanFordWithLog: the route and its price
reconstructRoute(g, dist, trc, end, side) ==
    IF distanceOf(dist, end) = PosInf THEN TradingRoute(<<>>, Zero)
    ELSE LET path == tracePath(trc, end, 0, Cardinality(DOMAIN g), <<>>)
         IN  IF side THEN TradingRoute(ReversePath(path), distanceOf(dist, end))
                     ELSE TradingRoute(path, RInv(distanceOf(dist, end)))

VARIABLES
    pc,               \* position of the request in runTestCase
    pairs,            \* the input pairs
    pairIdx,          \* index of buildGraph's loop
    graph,            \* the Graph being built
    baseCurrency, quoteCurrency,
    maxDepth,         \* the depth findAllPaths is called with
    paths,            \* the list findAllPaths returned
    pathIdx,          \* index of buildVirtualOrderbook's loop over paths
    isAsk,            \* side calculateOrdersFromPath is called for
    candidates,       \* the sorted candidates of the current path and side
    candIdx,          \* index of the greedy loop
    remainingVolumes, \* remainingVolumes[hop][level] of the current call
    result,           \* the combos appended so far by the current call
    emitted,          \* log of every combo appended, over all calls
    sortedPair,       \* the two level lists after sortVirtualLevels
    virtualPair,      \* AskOrders and BidOrders of the VirtualTradingPair
    targetAmount,
    askFill, bidFill, \* the (price, route) results of the executor
    inversions,       \* a level list and its successive invertOrders images
    distances,        \* p1: distances of bellmanFordWithLog
    tracer,           \* p1: the predecessor of a node
    iteration,        \* p1: i of the outer loop of bellmanFordWithLog
    unvisited,        \* p1: the nodes "for u := range graph" has yet to visit in this pass
    bestAskRoute, bestBidRoute   \* p1: the results of FindOptimalTradingRoutes

vars == <<pc, pairs, pairIdx, graph, baseCurrency, quoteCurrency, maxDepth, paths, pathIdx,
          isAsk, candidates, candIdx, remainingVolumes, result, emitted, sortedPair,
          virtualPair, targetAmount, askFill, bidFill, inversions,
          distances, tracer, iteration, unvisited, bestAskRoute, bestBidRoute>>

graphVars == <<pairIdx, graph>>
bookVars == <<paths, pathIdx, isAsk, sortedPair, virtualPair>>
greedyVars == <<candidates, candIdx, remainingVolumes, result, emitted>>
execVars == <<targetAmount, askFill, bidFill>>
inputVars == <<pairs, baseCurrency, quoteCurrency, maxDepth, inversions>>
routeVars == <<distances, tracer, iteration, unvisited, bestAskRoute, bestBidRoute>>

(***************************************************************************)
(* Inputs.                                                                 *)
(***************************************************************************)
\* the pairs a request is drawn from; 1 and 2 are the README's example
PairPool ==
    << TradingPair("KNC", "USDT", <<Lv(1, 1, 200), Lv(7, 5, 400)>>,
                                  <<Lv(9, 10, 100), Lv(4, 5, 300)>>),
       TradingPair("ETH", "USDT", <<Lv(40, 1, 10)>>,
                                  <<Lv(30, 1, 10), Lv(20, 1, 15)>>),
       TradingPair("KNC", "ETH",  <<Lv(1, 20, 30), Lv(1, 30, 50)>>,
                                  <<Lv(9, 400, 70), Lv(1, 20001, 6667), Lv(1, 20000, 100)>>),
       TradingPair("KNC", "BTC",  <<Lv(1, 2, 100)>>, <<Lv(1, 4, 100)>>),
       TradingPair("BTC", "USDT", <<Lv(2, 1, 150)>>, <<Lv(1, 1, 50)>>),
       TradingPair("BTC", "ETH",  <<Lv(1, 10, 80)>>, <<Lv(1, 50, 20)>>) >>

\* the pool's pairs with the indices S, in the pool's order
PoolPairs(S) ==
    [k \in 1..Cardinality(S) |->
        PairPool[CHOOSE i \in S : Cardinality({j \in S : j < i}) = k - 1]]

PairLists ==
    {PoolPairs(S) : S \in {T \in SUBSET (1..Len(PairPool)) : Cardinality(T) <= MaxPairs}}

BaseQuotes == {<<"KNC", "ETH">>, <<"ETH", "KNC">>, <<"KNC", "KNC">>, <<"KNC", "XRP">>}

\* the amounts a request asks for: -100, 0, 100, ...
Targets == {Rat(100 * k, 1) : k \in -1..MaxTarget}

NoFill == [price |-> Zero, route |-> <<>>]
EmptyPair == [AskOrders |-> <<>>, BidOrders |-> <<>>]

\* p1 has not run
NoRoute == TradingRoute(<<>>, Zero)
RouteIdle ==
    /\ distances = EmptyMap
    /\ tracer = EmptyMap
    /\ iteration = 0
    /\ unvisited = {}
    /\ bestAskRoute = NoRoute
    /\ bestBidRoute = NoRoute

InitRest ==
    /\ pairIdx = 1
    /\ graph = EmptyMap
    /\ paths = <<>>
    /\ pathIdx = 1
    /\ isAsk = TRUE
    /\ candidates = <<>>
    /\ candIdx = 1
    /\ remainingVolumes = <<>>
    /\ result = <<>>
    /\ emitted = <<>>
    /\ sortedPair = EmptyPair
    /\ virtualPair = EmptyPair
    /\ targetAmount = Zero
    /\ askFill = NoFill
    /\ bidFill = NoFill
    /\ RouteIdle

Init ==
    /\ pc = "buildGraph"
    /\ pairs \in PairLists
    /\ \E bq \in BaseQuotes : baseCurrency = bq[1] /\ quoteCurrency = bq[2]
    /\ maxDepth = MAX_PATH_DEPTH
    /\ inversions = <<>>
    /\ InitRest

(***************************************************************************)
(* Actions.                                                                *)
(***************************************************************************)
\* buildGraph: one iteration of the loop over pairs
BuildGraphStep ==
    /\ pc = "buildGraph"
    /\ pairIdx <= Len(pairs)
    /\ graph' = buildGraphPair(graph, pairs[pairIdx])
    /\ pairIdx' = pairIdx + 1
    /\ UNCHANGED <<pc, bookVars, greedyVars, execVars, inputVars, routeVars>>

\* buildGraph: return graph
BuildGraphReturn ==
    /\ pc = "buildGraph"
    /\ pairIdx > Len(pairs)
    /\ pc' = "findAllPaths"
    /\ UNCHANGED <<graphVars, bookVars, greedyVars, execVars, inputVars, routeVars>>

\* buildVirtualOrderbook: paths := findAllPaths(...)
FindAllPaths ==
    /\ pc = "findAllPaths"
    /\ paths' \in findAllPaths(graph, baseCurrency, quoteCurrency, maxDepth)
    /\ pathIdx' = 1
    /\ isAsk' = TRUE
    /\ virtualPair' = EmptyPair
    /\ pc' = "pathLoop"
    /\ UNCHANGED <<graphVars, sortedPair, greedyVars, execVars, inputVars, routeVars>>

\* calculateOrdersFromPath(graph, path, isAsk) up to the greedy loop:
\* the hop levels, the sorted candidates and the residual table
CalculateOrdersStart ==
    /\ pc = "pathLoop"
    /\ pathIdx <= Len(paths)
    /\ LET allHopLevels == hopLevelsOf(graph, paths[pathIdx], isAsk)
       IN  /\ candidates' \in
                 sortCandidatesByPrice(
                     generateAllRouteCandidates(allHopLevels, 1, <<>>, <<>>), isAsk)
           /\ remainingVolumes' = initialVolumes(allHopLevels)
    /\ candIdx' = 1
    /\ result' = <<>>
    /\ pc' = "greedy"
    /\ UNCHANGED <<graphVars, bookVars, emitted, execVars, inputVars, routeVars>>

\* one iteration of the greedy loop over the candidates
GreedyStep ==
    /\ pc = "greedy"
    /\ candIdx <= Len(candidates)
    /\ LET candidate == candidates[candIdx]
           volume == maxUsableVolume(remainingVolumes, candidate)
       IN  IF RLess(Zero, volume)
           THEN /\ remainingVolumes' = deductVolume(remainingVolumes, candidate, volume)
                /\ result' = Append(result, PriceVolumeCombo(candidate.prices, volume))
                /\ emitted' = Append(emitted,
                       [path |-> paths[pathIdx], isAsk |-> isAsk,
                        levelIndices |-> candidate.levelIndices,
                        finalPrice |-> candidate.finalPrice, depth |-> volume])
           ELSE UNCHANGED <<remainingVolumes, result, emitted>>
    /\ candIdx' = candIdx + 1
    /\ UNCHANGED <<pc, candidates, graphVars, bookVars, execVars, inputVars, routeVars>>

\* the greedy loop ends; calculateOrdersFromPath builds the levels and
\* buildVirtualOrderbook appends them to the side
CalculateOrdersReturn ==
    /\ pc = "greedy"
    /\ candIdx > Len(candidates)
    /\ LET levels == levelsOfCombos(result, paths[pathIdx], isAsk)
       IN  virtualPair' =
             IF isAsk THEN [virtualPair EXCEPT !.AskOrders = @ \o levels]
                      ELSE [virtualPair EXCEPT !.BidOrders = @ \o levels]
    /\ isAsk' = ~isAsk
    /\ pathIdx' = IF isAsk THEN pathIdx ELSE pathIdx + 1
    /\ pc' = "pathLoop"
    /\ UNCHANGED <<graphVars, paths, sortedPair, greedyVars, execVars, inputVars, routeVars>>

\* buildVirtualOrderbook after the loop: sort both sides, merge both sides, return
Finalize ==
    /\ pc = "pathLoop"
    /\ pathIdx > Len(paths)
    /\ \E asks \in sortVirtualLevels(virtualPair.AskOrders, TRUE),
          bids \in sortVirtualLevels(virtualPair.BidOrders, FALSE) :
          /\ sortedPair' = [AskOrders |-> asks, BidOrders |-> bids]
          /\ virtualPair' = [AskOrders |-> mergeVirtualLevels(asks),
                             BidOrders |-> mergeVirtualLevels(bids)]
    /\ pc' = "execute"
    /\ UNCHANGED <<graphVars, paths, pathIdx, isAsk, greedyVars, execVars, inputVars, routeVars>>

\* runTestCase: the executor on both sides for the requested amount
Execute ==
    /\ pc = "execute"
    /\ \E amount \in Targets :
          /\ targetAmount' = amount
          /\ askFill' = findBestRouteFromVirtualOrderbook(virtualPair.AskOrders, amount)
          /\ bidFill' = findBestRouteFromVirtualOrderbook(virtualPair.BidOrders, amount)
    /\ pc' = "done"
    /\ UNCHANGED <<graphVars, bookVars, greedyVars, inputVars, routeVars>>

Next ==
    \/ BuildGraphStep
    \/ BuildGraphReturn
    \/ FindAllPaths
    \/ CalculateOrdersStart
    \/ GreedyStep
    \/ CalculateOrdersReturn
    \/ Finalize
    \/ Execute

Spec == Init /\ [][Next]_vars

(***************************************************************************)
(* buildGraph on its own: pair lists in any order, with duplicates, both   *)
(* orientations, a pair of a currency with itself, prices <= 0 and more    *)
(* than MAX_LEVELS_PER_PAIR levels.                                        *)
(***************************************************************************)
GraphPool ==
    << PairPool[1],
       TradingPair("KNC", "USDT", <<Lv(3, 2, 10)>>,
                                  <<Lv(0, 1, 5), Lv(1, 2, 8), Lv(-1, 1, 3)>>),
       TradingPair("USDT", "KNC", <<Lv(2, 1, 7), Lv(0, 1, 4)>>, <<Lv(1, 4, 9)>>),
       PairPool[2],
       TradingPair("ETH", "ETH",  <<Lv(2, 1, 1)>>, <<Lv(3, 1, 1)>>),
       TradingPair("KNC", "ETH",
                   <<Lv(1, 1, 1), Lv(2, 1, 2), Lv(3, 1, 3), Lv(4, 1, 4), Lv(5, 1, 5),
                     Lv(6, 1, 6)>>,
                   <<Lv(1, 2, 6), Lv(0, 1, 5), Lv(1, 3, 4), Lv(1, 4, 3), Lv(1, 5, 2),
                     Lv(1, 6, 1), Lv(1, 7, 1)>>) >>

RECURSIVE SeqsUpTo(_, _)
\* the sequences over S of length at most n
SeqsUpTo(S, n) ==
    IF n = 0 THEN {<<>>}
    ELSE LET shorter == SeqsUpTo(S, n - 1)
         IN  shorter \cup {Append(q, x) : q \in shorter, x \in S}

InitGraph ==
    /\ pc = "buildGraph"
    /\ pairs \in SeqsUpTo({GraphPool[i] : i \in 1..Len(GraphPool)}, MaxGraphPairs)
    /\ baseCurrency = "KNC"
    /\ quoteCurrency = "ETH"
    /\ maxDepth = MAX_PATH_DEPTH
    /\ inversions = <<>>
    /\ InitRest

NextGraph ==
    \/ BuildGraphStep
    \/ BuildGraphReturn

SpecGraph == InitGraph /\ [][NextGraph]_vars

(***************************************************************************)
(* findAllPaths on its own: graphs over six currencies built from pairs    *)
(* with empty books, with a self pair, every depth up to MAX_PATH_DEPTH.   *)
(***************************************************************************)
PathPool ==
    << TradingPair("KNC", "USDT", <<>>, <<>>),
       TradingPair("ETH", "USDT", <<>>, <<>>),
       TradingPair("KNC", "ETH",  <<>>, <<>>),
       TradingPair("KNC", "BNB",  <<>>, <<>>),
       TradingPair("BNB", "SOL",  <<>>, <<>>),
       TradingPair("SOL", "BTC",  <<>>, <<>>),
       TradingPair("BTC", "USDT", <<>>, <<>>),
       TradingPair("BTC", "ETH",  <<>>, <<>>),
       TradingPair("ETH", "ETH",  <<>>, <<>>) >>

\* the path pool's pairs with the indices S, in the pool's order
PathPoolPairs(S) ==
    [k \in 1..Cardinality(S) |->
        PathPool[CHOOSE i \in S : Cardinality({j \in S : j < i}) = k - 1]]

PathEnds == {<<"KNC", "ETH">>, <<"ETH", "KNC">>, <<"ETH", "ETH">>, <<"KNC", "XRP">>}

InitPaths ==
    /\ pc = "buildGraph"
    /\ pairs \in {PathPoolPairs(S) :
                    S \in {T \in SUBSET (1..Len(PathPool)) : Cardinality(T) <= MaxPathPairs}}
    /\ \E se \in PathEnds : baseCurrency = se[1] /\ quoteCurrency = se[2]
    /\ maxDepth \in 0..MAX_PATH_DEPTH
    /\ inversions = <<>>
    /\ InitRest

NextPaths ==
    \/ BuildGraphStep
    \/ BuildGraphReturn
    \/ FindAllPaths

SpecPaths == InitPaths /\ [][NextPaths]_vars

(***************************************************************************)
(* The book of a request whose input is the single pair (B, Q): level      *)
(* lists in any order, with equal and nearly equal prices, a quantity of   *)
(* 0, and more than MAX_LEVELS_PER_PAIR levels.                            *)
(***************************************************************************)
DirectAskPool == {Lv(31, 10000, 400), Lv(1, 20, 100), Lv(1, 20000, 10), Lv(1, 20001, 20)}
DirectBidPool == {Lv(1, 20, 100), Lv(1, 30, 50), Lv(1, 30, 0)}
LongAsks == <<Lv(1, 1, 10), Lv(2, 1, 20), Lv(3, 1, 30), Lv(4, 1, 40), Lv(5, 1, 50),
              Lv(6, 1, 60)>>
LongBids == <<Lv(7, 1, 10), Lv(6, 1, 20), Lv(5, 1, 30), Lv(4, 1, 40), Lv(3, 1, 50),
              Lv(2, 1, 60), Lv(1, 1, 70)>>
DirectEnds == {<<"KNC", "ETH">>, <<"KNC", "KNC">>}

InitDirect ==
    /\ pc = "buildGraph"
    /\ \E bq \in DirectEnds :
       \E asks \in SeqsUpTo(DirectAskPool, MaxDirectLevels) \cup {LongAsks} :
       \E bids \in SeqsUpTo(DirectBidPool, MaxDirectLevels) \cup {LongBids} :
          /\ baseCurrency = bq[1]
          /\ quoteCurrency = bq[2]
          /\ pairs = <<TradingPair(bq[1], bq[2], asks, bids)>>
    /\ maxDepth = MAX_PATH_DEPTH
    /\ inversions = <<>>
    /\ InitRest

NextDirect ==
    \/ BuildGraphStep
    \/ BuildGraphReturn
    \/ FindAllPaths
    \/ CalculateOrdersStart
    \/ GreedyStep
    \/ CalculateOrdersReturn
    \/ Finalize

SpecDirect == InitDirect /\ [][NextDirect]_vars

(***************************************************************************)
(* The end of buildVirtualOrderbook on its own: the levels of three paths, *)
(* with equal and nearly equal composite prices, are sorted and merged.    *)
(***************************************************************************)
MergePaths == << <<"KNC", "ETH">>, <<"KNC", "USDT", "ETH">>, <<"KNC", "BTC", "ETH">> >>

\* combos of the three paths: (path, per-hop prices, quantity)
MergePool ==
    { [path |-> 1, combo |-> PriceVolumeCombo(<<Rat(1, 20)>>, Rat(100, 1))],
      [path |-> 2, combo |-> PriceVolumeCombo(<<Rat(1, 1), Rat(1, 20)>>, Rat(150, 1))],
      [path |-> 1, combo |-> PriceVolumeCombo(<<Rat(1, 20000)>>, Rat(10, 1))],
      [path |-> 2, combo |-> PriceVolumeCombo(<<Rat(1, 2), Rat(2, 20001)>>, Rat(20, 1))],
      [path |-> 3, combo |-> PriceVolumeCombo(<<Rat(1, 2), Rat(1, 5)>>, Rat(5, 1))],
      [path |-> 3, combo |-> PriceVolumeCombo(<<Rat(1, 2), Rat(2, 20005)>>, Rat(7, 1))] }

\* the levels calculateOrdersFromPath builds for the chosen combos on a side
MergeInput(chosen, side) ==
    LET F[i \in 0..Len(chosen)] ==
          IF i = 0 THEN <<>>
          ELSE F[i-1] \o levelsOfCombos(<<chosen[i].combo>>, MergePaths[chosen[i].path], side)
    IN  F[Len(chosen)]

InitMerge ==
    /\ pc = "pathLoop"
    /\ pairs = <<>>
    /\ baseCurrency = "KNC"
    /\ quoteCurrency = "ETH"
    /\ maxDepth = MAX_PATH_DEPTH
    /\ inversions = <<>>
    /\ pairIdx = 1
    /\ graph = EmptyMap
    /\ paths = MergePaths
    /\ pathIdx = Len(MergePaths) + 1
    /\ isAsk = TRUE
    /\ candidates = <<>>
    /\ candIdx = 1
    /\ remainingVolumes = <<>>
    /\ result = <<>>
    /\ emitted = <<>>
    /\ sortedPair = EmptyPair
    /\ \E chosen \in SeqsUpTo(MergePool, MaxMergeLevels) :
          virtualPair = [AskOrders |-> MergeInput(chosen, TRUE),
                         BidOrders |-> MergeInput(chosen, FALSE)]
    /\ targetAmount = Zero
    /\ askFill = NoFill
    /\ bidFill = NoFill
    /\ RouteIdle

NextMerge == Finalize

SpecMerge == InitMerge /\ [][NextMerge]_vars

(***************************************************************************)
(* calculateOrdersFromPath on its own, for both sides of one path: a path  *)
(* of two hops, of one hop, with a missing edge, of one token; level lists *)
(* with equal prices, quantities of 0 and below, and empty lists.          *)
(***************************************************************************)
OrderHop1Pool == {Lv(1, 1, 60), Lv(1, 1, 200), Lv(7, 5, 0), Lv(3, 1, -5)}
OrderHop2Pool == {Lv(20, 1, 5), Lv(20, 1, 2), Lv(30, 1, 10)}
\* the bid lists of ETH/USDT: no level, one level, or two levels best first
OrderHop2Lists ==
    {<<>>} \cup {<<x>> : x \in OrderHop2Pool}
           \cup { <<Lv(20, 1, 5), Lv(20, 1, 2)>>, <<Lv(20, 1, 2), Lv(20, 1, 2)>>,
                  <<Lv(30, 1, 10), Lv(20, 1, 5)>> }
OrderPaths == { <<"KNC", "USDT", "ETH">>, <<"KNC", "USDT">>, <<"KNC", "USDT", "BTC">>,
                <<"KNC">> }

InitOrders ==
    /\ \E asks1 \in SeqsUpTo(OrderHop1Pool, MaxOrderLevels) :
       \E bids2 \in OrderHop2Lists :
       \E bids1 \in {<<>>, <<Lv(9, 10, 100), Lv(4, 5, 300)>>} :
          pairs = << TradingPair("KNC", "USDT", asks1, bids1),
                     TradingPair("ETH", "USDT", <<Lv(40, 1, 10)>>, bids2) >>
    /\ graph = buildGraph(pairs)
    /\ pairIdx = Len(pairs) + 1
    /\ \E path \in OrderPaths :
          /\ paths = <<path>>
          /\ baseCurrency = path[1]
          /\ quoteCurrency = path[Len(path)]
    /\ pc = "pathLoop"
    /\ maxDepth = MAX_PATH_DEPTH
    /\ inversions = <<>>
    /\ pathIdx = 1
    /\ isAsk = TRUE
    /\ candidates = <<>>
    /\ candIdx = 1
    /\ remainingVolumes = <<>>
    /\ result = <<>>
    /\ emitted = <<>>
    /\ sortedPair = EmptyPair
    /\ virtualPair = EmptyPair
    /\ targetAmount = Zero
    /\ askFill = NoFill
    /\ bidFill = NoFill
    /\ RouteIdle

NextOrders ==
    \/ CalculateOrdersStart
    \/ GreedyStep
    \/ CalculateOrdersReturn

SpecOrders == InitOrders /\ [][NextOrders]_vars

(***************************************************************************)
(* invertOrders on its own, applied to a level list and again to its       *)
(* result.                                                                 *)
(***************************************************************************)
InvertPrices == {Rat(-1, 1), Zero, Rat(1, 2), Rat(7, 5), Rat(3, 1)}
InvertAmounts == {Zero, Rat(1, 3), Rat(5, 1)}
InvertLevels == {Level(p, a) : p \in InvertPrices, a \in InvertAmounts}

InitInvert ==
    /\ pc = "invertOrders"
    /\ pairs = <<>>
    /\ baseCurrency = "KNC"
    /\ quoteCurrency = "ETH"
    /\ maxDepth = MAX_PATH_DEPTH
    /\ \E levels \in SeqsUpTo(InvertLevels, MaxInvertLevels) : inversions = <<levels>>
    /\ InitRest

\* invertOrders applied to the last list
InvertOrders ==
    /\ pc = "invertOrders"
    /\ Len(inversions) < 3
    /\ inversions' = Append(inversions, invertOrders(inversions[Len(inversions)]))
    /\ UNCHANGED <<pc, pairs, baseCurrency, quoteCurrency, maxDepth, graphVars,
                   bookVars, greedyVars, execVars, routeVars>>

NextInvert == InvertOrders

SpecInvert == InitInvert /\ [][NextInvert]_vars

(***************************************************************************)
(* Problem 1: FindOptimalTradingRoutes on lists of single-price pairs.     *)
(***************************************************************************)
\* pairs with Ask >= Bid > 0, and ETH/USDT once more with Bid > Ask, which
\* makes an arbitrage cycle
RoutePool ==
    << PricePair("KNC", "USDT", Rat(11, 10), Rat(1, 1)),
       PricePair("ETH", "USDT", Rat(20, 1), Rat(30, 1)),
       PricePair("KNC", "ETH", Rat(1, 20), Rat(1, 25)),
       PricePair("ETH", "USDT", Rat(20, 1), Rat(18, 1)),
       PricePair("ETH", "BTC", Rat(1, 10), Rat(1, 12)),
       PricePair("BTC", "USDT", Rat(190, 1), Rat(180, 1)) >>

\* the pairs of RoutePool at the positions chosen, in the order of the pool
RouteList(chosen) ==
    LET F[i \in 0..Len(RoutePool)] ==
          IF i = 0 THEN <<>>
          ELSE IF i \in chosen THEN Append(F[i-1], RoutePool[i]) ELSE F[i-1]
    IN  F[Len(RoutePool)]

\* (base, quote) of the request; XRP is in no pair
RouteEnds ==
    { <<"KNC", "USDT">>, <<"USDT", "KNC">>, <<"KNC", "XRP">>, <<"XRP", "USDT">>,
      <<"KNC", "KNC">> }

InitRoutes ==
    /\ pc = "FindOptimalTradingRoutes"
    /\ \E chosen \in SUBSET (1..Len(RoutePool)) :
          /\ Cardinality(chosen) <= MaxRoutePairs
          /\ pairs = RouteList(chosen)
    /\ \E ends \in RouteEnds :
          /\ baseCurrency = ends[1]
          /\ quoteCurrency = ends[2]
    /\ maxDepth = MAX_PATH_DEPTH
    /\ inversions = <<>>
    /\ InitRest

\* FindOptimalTradingRoutes: buildGraph, then findBestRoute for the ask side
BuildPriceGraph ==
    /\ pc = "FindOptimalTradingRoutes"
    /\ graph' = buildPriceGraph(pairs)
    /\ isAsk' = TRUE
    /\ pc' = "bellmanFordWithLog"
    /\ UNCHANGED <<pairIdx, paths, pathIdx, sortedPair, virtualPair, greedyVars,
                   execVars, inputVars, routeVars>>

\* bellmanFordWithLog: the initialisation of distances and tracer
BellmanFordInit ==
    /\ pc = "bellmanFordWithLog"
    /\ distances' = initialDistances(graph, baseCurrency)
    /\ tracer' = EmptyMap
    /\ iteration' = 0
    /\ unvisited' = DOMAIN graph
    /\ pc' = "relax"
    /\ UNCHANGED <<graphVars, bookVars, greedyVars, execVars, inputVars,
                   bestAskRoute, bestBidRoute>>

\* one iteration of "for u := range graph" in pass i of the outer loop: the
\* edges of u are relaxed; after the last node the next pass begins
BellmanFordNode ==
    /\ pc = "relax"
    /\ iteration < Cardinality(DOMAIN graph) - 1
    /\ \E u \in unvisited :
          /\ \E edges \in rangeEdges(graph, u) :
                LET st == relaxAll(graph, [distances |-> distances, tracer |-> tracer],
                                   edges, isAsk)
                IN  /\ distances' = st.distances
                    /\ tracer' = st.tracer
          /\ IF unvisited = {u}
             THEN /\ iteration' = iteration + 1
                  /\ unvisited' = DOMAIN graph
             ELSE /\ iteration' = iteration
                  /\ unvisited' = unvisited \ {u}
    /\ UNCHANGED <<pc, graphVars, bookVars, greedyVars, execVars, inputVars,
                   bestAskRoute, bestBidRoute>>

\* the loop is over (the check for negative cycles only prints): the route
\* is rebuilt and returned, and findBestRoute is called for the bid side
BellmanFordReturn ==
    /\ pc = "relax"
    /\ iteration >= Cardinality(DOMAIN graph) - 1
    /\ LET route == reconstructRoute(graph, distances, tracer, quoteCurrency, isAsk)
       IN  IF isAsk
           THEN /\ bestAskRoute' = route
                /\ isAsk' = FALSE
                /\ pc' = "bellmanFordWithLog"
                /\ UNCHANGED bestBidRoute
           ELSE /\ bestBidRoute' = route
                /\ pc' = "routesDone"
                /\ UNCHANGED <<bestAskRoute, isAsk>>
    /\ UNCHANGED <<graphVars, paths, pathIdx, sortedPair, virtualPair, greedyVars,
                   execVars, inputVars, distances, tracer, iteration, unvisited>>

NextRoutes ==
    \/ BuildPriceGraph
    \/ BellmanFordInit
    \/ BellmanFordNode
    \/ BellmanFordReturn

SpecRoutes == InitRoutes /\ [][NextRoutes]_vars

(***************************************************************************)
(* Properties of the virtual order book and of the executor.               *)
(***************************************************************************)
\* buildVirtualOrderbook has returned: virtualPair is the book it returned
BookReturned == pc \in {"execute", "done"}

SideLevels(pair, side) == IF side THEN pair.AskOrders ELSE pair.BidOrders

\* whether the logged combo e drew on level idx of the side of edge x -> y
UsesEdgeLevel(e, x, y, side, idx) ==
    /\ e.isAsk = side
    /\ \E h \in 1..(Len(e.path) - 1) :
          e.path[h] = x /\ e.path[h+1] = y /\ e.levelIndices[h] = idx

\* the quantity all logged combos drew on level idx of the side of edge x -> y
EdgeLevelUsed(x, y, side, idx) ==
    LET F[k \in 0..Len(emitted)] ==
          IF k = 0 THEN Zero
          ELSE IF UsesEdgeLevel(emitted[k], x, y, side, idx)
               THEN RAdd(F[k-1], emitted[k].depth)
               ELSE F[k-1]
    IN  F[Len(emitted)]

SumAmount(levels) ==
    LET F[k \in 0..Len(levels)] ==
          IF k = 0 THEN Zero ELSE RAdd(F[k-1], levels[k].Amount)
    IN  F[Len(levels)]

SumCost(levels) ==
    LET F[k \in 0..Len(levels)] ==
          IF k = 0 THEN Zero ELSE RAdd(F[k-1], RMul(levels[k].Amount, levels[k].Price))
    IN  F[Len(levels)]

PriceAmounts(levels) == [k \in 1..Len(levels) |-> <<levels[k].Price, levels[k].Amount>>]

\* the README's example: KNC/USDT and ETH/USDT, book asked for KNC -> ETH
Scenario1 ==
    /\ pairs = PoolPairs({1, 2})
    /\ baseCurrency = "KNC"
    /\ quoteCurrency = "ETH"

\* C1 (as claimed): after buildVirtualOrderbook, for every edge, side and level
\* the quantities of all levels emitted, over all paths, by candidates using
\* that edge-level sum to at most the level's original quantity.
C1_NoEdgeLevelOversold ==
    BookReturned =>
      \A x \in DOMAIN graph : \A y \in DOMAIN graph[x] : \A side \in BOOLEAN :
        \A idx \in 1..Len(SideLevels(graph[x][y], side)) :
          RLeq(EdgeLevelUsed(x, y, side, idx), SideLevels(graph[x][y], side)[idx].Amount)

\* C2 (as claimed): on each side, no candidate is assigned volume before a
\* candidate, of the same or of another path, with a strictly better
\* composite price.
C2_GlobalBestFirst ==
    \A i, j \in 1..Len(emitted) :
      (i < j /\ emitted[i].isAsk = emitted[j].isAsk)
        => ~PriceBefore(emitted[j].finalPrice, emitted[i].finalPrice, emitted[i].isAsk)

\* C3: in Scenario 1 the ask book returned is exactly (1/30, 200), (1.4/30, 100),
\* (1.4/20, 300) in this order, and the candidate 1.0 * (1/20) meets a residual
\* of 0 and emits nothing.
C3_Scenario1AskBook ==
    Scenario1 =>
      /\ BookReturned =>
           PriceAmounts(virtualPair.AskOrders) =
             << <<Rat(1, 30), Rat(200, 1)>>, <<Rat(7, 150), Rat(100, 1)>>,
                <<Rat(7, 100), Rat(300, 1)>> >>
      /\ (pc = "greedy" /\ isAsk /\ candIdx <= Len(candidates)
            /\ candidates[candIdx].levelIndices = <<1, 2>>)
           => maxUsableVolume(remainingVolumes, candidates[candIdx]) = Zero
      /\ \A k \in 1..Len(emitted) :
           emitted[k].isAsk => emitted[k].levelIndices # <<1, 2>>

C3_Witness == Scenario1 /\ pc = "done" /\ Len(virtualPair.AskOrders) = 3

ExecutorBound(levels, fill) ==
    RLeq(SumAmount(fill.route), RMin(targetAmount, SumAmount(levels)))

\* C4 (as claimed): for every level list and every target T the fills satisfy
\* sum(fill.quantity) <= min(T, sum(level.quantity)).
C4_ExecutorBoundAnyTarget ==
    pc = "done" =>
      /\ ExecutorBound(virtualPair.AskOrders, askFill)
      /\ ExecutorBound(virtualPair.BidOrders, bidFill)

\* C4 (amended): for every level list and every target T >= 0 the fills satisfy
\* sum(fill.quantity) <= min(T, sum(level.quantity)).
C4_ExecutorBound ==
    (pc = "done" /\ RLeq(Zero, targetAmount)) =>
      /\ ExecutorBound(virtualPair.AskOrders, askFill)
      /\ ExecutorBound(virtualPair.BidOrders, bidFill)

C4_Witness ==
    /\ pc = "done"
    /\ RLess(Zero, targetAmount)
    /\ Len(askFill.route) >= 2
    /\ SumAmount(askFill.route) = targetAmount
    /\ RLess(targetAmount, SumAmount(virtualPair.AskOrders))

\* the fills are a prefix walk of the levels for the target
PrefixWalk(levels, fill) ==
    LET fills == fill.route
        n == Len(fills)
    IN  /\ n <= Len(levels)
        /\ \A i \in 1..n :
              /\ fills[i].Price = levels[i].Price
              /\ fills[i].Route = levels[i].Route
              /\ fills[i].LevelPrices = levels[i].LevelPrices
              /\ RLess(Zero, fills[i].Amount)
              /\ i < n => fills[i].Amount = levels[i].Amount
        /\ SumAmount(fills) = RMin(targetAmount, SumAmount(levels))
        /\ targetAmount = Zero => n = 0
        /\ RLess(SumAmount(levels), targetAmount) =>
              n = Len(levels) /\ RLess(SumAmount(fills), targetAmount)

\* C5: for T >= 0, fill i is taken from level i (same price, route, per-hop
\* prices), every fill but the last takes its level whole, every fill is > 0
\* and the total is min(T, sum of the levels); T = 0 gives no fill and a T
\* above the book's total gives one fill per level, short of T.
C5_PrefixWalk ==
    (pc = "done" /\ RLeq(Zero, targetAmount)) =>
      /\ PrefixWalk(virtualPair.AskOrders, askFill)
      /\ PrefixWalk(virtualPair.BidOrders, bidFill)

C5_Witness ==
    /\ pc = "done"
    /\ Len(askFill.route) >= 2
    /\ Len(askFill.route) < Len(virtualPair.AskOrders)
    /\ RLess(askFill.route[Len(askFill.route)].Amount,
             virtualPair.AskOrders[Len(askFill.route)].Amount)
    /\ Len(bidFill.route) >= 2

EffectivePriceIsAverage(levels, fill) ==
    Len(levels) > 0 =>
      /\ RLess(Zero, SumAmount(fill.route))
      /\ fill.price = RDiv(SumCost(fill.route), SumAmount(fill.route))

\* C6: for a non-empty level list and T > 0 the effective price returned is
\* sum(f*p)/sum(f) over the fills, also on a partial fill; in Scenario 1 with
\* T = 300 the ask fills are 200 @ 1/30 and 100 @ 1.4/30 and the price 34/900.
C6_EffectivePrice ==
    (pc = "done" /\ RLess(Zero, targetAmount)) =>
      /\ EffectivePriceIsAverage(virtualPair.AskOrders, askFill)
      /\ EffectivePriceIsAverage(virtualPair.BidOrders, bidFill)
      /\ (Scenario1 /\ targetAmount = Rat(300, 1)) =>
            /\ PriceAmounts(askFill.route) =
                 << <<Rat(1, 30), Rat(200, 1)>>, <<Rat(7, 150), Rat(100, 1)>> >>
            /\ askFill.price = Rat(34, 900)

C6_Witness ==
    /\ pc = "done"
    /\ Len(askFill.route) >= 2
    /\ RLess(SumAmount(askFill.route), targetAmount)
    /\ askFill.route[1].Price # askFill.route[2].Price

\* C7: in the book returned, ask prices are non-decreasing and bid prices
\* non-increasing along the list.
C7_BookSorted ==
    BookReturned =>
      /\ \A i \in 1..(Len(virtualPair.AskOrders) - 1) :
            RLeq(virtualPair.AskOrders[i].Price, virtualPair.AskOrders[i+1].Price)
      /\ \A i \in 1..(Len(virtualPair.BidOrders) - 1) :
            RLeq(virtualPair.BidOrders[i+1].Price, virtualPair.BidOrders[i].Price)

\* the levels were not emitted in sorted order on either side
C7_Witness ==
    /\ BookReturned
    /\ Len(virtualPair.AskOrders) >= 3
    /\ Len(virtualPair.BidOrders) >= 3
    /\ \A side \in BOOLEAN :
         \E i, j \in 1..Len(emitted) :
            /\ i < j
            /\ emitted[i].isAsk = side /\ emitted[j].isAsk = side
            /\ PriceBefore(emitted[j].finalPrice, emitted[i].finalPrice, side)

\* C8: in the book returned, no two adjacent levels of a side have prices that
\* differ by less than the merge tolerance 1e-8.
C8_PriceSeparation ==
    BookReturned =>
      \A side \in BOOLEAN :
        \A i \in 1..(Len(SideLevels(virtualPair, side)) - 1) :
          ~WithinTolerance(SideLevels(virtualPair, side)[i].Price,
                           SideLevels(virtualPair, side)[i+1].Price)

\* two sorted neighbours were within the tolerance and not equal, and merged
C8_Witness ==
    /\ BookReturned
    /\ \E i \in 1..(Len(sortedPair.BidOrders) - 1) :
          /\ sortedPair.BidOrders[i].Price # sortedPair.BidOrders[i+1].Price
          /\ WithinTolerance(sortedPair.BidOrders[i].Price, sortedPair.BidOrders[i+1].Price)
    /\ Len(virtualPair.BidOrders) < Len(sortedPair.BidOrders)
    /\ Len(virtualPair.BidOrders) >= 2

(***************************************************************************)
(* Properties of buildGraph and invertOrders.                              *)
(***************************************************************************)
GraphReturned == pc # "buildGraph"

\* every level of `from` with a price > 0 has its inverse (1/p, v*p) in `to`
InverseLevelsIn(from, to) ==
    \A i \in 1..Len(from) :
      RLess(Zero, from[i].Price) =>
        \E k \in 1..Len(to) :
          /\ to[k].Price = RDiv(One, from[i].Price)
          /\ to[k].Amount = RMul(from[i].Amount, from[i].Price)

\* C9: after buildGraph on pairs whose base differs from their quote, every
\* edge X -> Y has its reverse Y -> X, every bid (p, v) of X -> Y with p > 0 has
\* the ask (1/p, v*p) on Y -> X and every ask its bid there, also with
\* duplicates and both orientations in the input.
C9_ReverseEdge ==
    (GraphReturned /\ \A i \in 1..Len(pairs) : pairs[i].Base # pairs[i].Quote) =>
      \A x \in DOMAIN graph : \A y \in DOMAIN graph[x] :
        /\ HasEdge(graph, y, x)
        /\ InverseLevelsIn(graph[x][y].BidOrders, graph[y][x].AskOrders)
        /\ InverseLevelsIn(graph[x][y].AskOrders, graph[y][x].BidOrders)

\* the input held a pair, then its opposite orientation, then a duplicate with
\* other levels
C9_Witness ==
    /\ GraphReturned
    /\ Len(pairs) = 3
    /\ pairs[1].Base = pairs[2].Quote /\ pairs[1].Quote = pairs[2].Base
    /\ pairs[1].Base # pairs[1].Quote
    /\ pairs[3].Base = pairs[1].Base /\ pairs[3].Quote = pairs[1].Quote
    /\ pairs[3] # pairs[1]
    /\ \E i \in 1..Len(pairs[3].BidOrders) : ~RLess(Zero, pairs[3].BidOrders[i].Price)

AllPricesPositive(levels) == \A i \in 1..Len(levels) : RLess(Zero, levels[i].Price)

\* C10: for every level list with all prices > 0, invertOrders applied twice
\* gives a list of the same length and order with the same price and the same
\* quantity at every level.
C10_InvertRoundTrip ==
    (Len(inversions) = 3 /\ AllPricesPositive(inversions[1])) =>
      /\ Len(inversions[3]) = Len(inversions[1])
      /\ \A i \in 1..Len(inversions[1]) :
            /\ inversions[3][i].Price = inversions[1][i].Price
            /\ inversions[3][i].Amount = inversions[1][i].Amount

C10_Witness ==
    /\ Len(inversions) = 3
    /\ AllPricesPositive(inversions[1])
    /\ Len(inversions[1]) >= 2
    /\ \A i \in 1..Len(inversions[1]) :
          /\ inversions[2][i].Price # inversions[1][i].Price
          /\ inversions[2][i].Amount # inversions[1][i].Amount
    /\ inversions[1][1] # inversions[1][2]

\* the first min(n, L) levels of the input list, in input order
IsCappedPrefix(stored, input) ==
    /\ Len(stored) = IF Len(input) < 5 THEN Len(input) ELSE 5
    /\ \A k \in 1..Len(stored) : stored[k] = input[k]

SamePair(i, j) ==
    pairs[i].Base = pairs[j].Base /\ pairs[i].Quote = pairs[j].Quote
OppositePair(i, j) ==
    pairs[i].Base = pairs[j].Quote /\ pairs[i].Quote = pairs[j].Base

\* pair i is stored: nothing written after its forward edge overwrote it,
\* neither a later pair of the same two currencies nor its own reverse edge
StoredPair(i) ==
    /\ pairs[i].Base # pairs[i].Quote
    /\ \A j \in (i+1)..Len(pairs) : ~SamePair(i, j) /\ ~OppositePair(i, j)

\* C11: after buildGraph every edge has at most L = 5 levels on each side; the
\* forward edge of every stored input pair holds exactly the first min(n, L)
\* asks and the first min(n, L) bids of the input, in input order, and its
\* reverse edge is the inversion of those truncated lists.
C11_LevelCap ==
    GraphReturned =>
      /\ \A x \in DOMAIN graph : \A y \in DOMAIN graph[x] :
            Len(graph[x][y].AskOrders) <= 5 /\ Len(graph[x][y].BidOrders) <= 5
      /\ \A i \in 1..Len(pairs) :
            StoredPair(i) =>
              LET b == pairs[i].Base
                  q == pairs[i].Quote
              IN  /\ HasEdge(graph, b, q) /\ HasEdge(graph, q, b)
                  /\ IsCappedPrefix(graph[b][q].AskOrders, pairs[i].AskOrders)
                  /\ IsCappedPrefix(graph[b][q].BidOrders, pairs[i].BidOrders)
                  /\ graph[q][b].AskOrders = invertOrders(graph[b][q].BidOrders)
                  /\ graph[q][b].BidOrders = invertOrders(graph[b][q].AskOrders)

\* a stored pair had more than L levels on both sides
C11_Witness ==
    /\ GraphReturned
    /\ \E i \in 1..Len(pairs) :
          /\ StoredPair(i)
          /\ Len(pairs[i].AskOrders) > 5 /\ Len(pairs[i].BidOrders) > 5
          /\ Len(graph[pairs[i].Base][pairs[i].Quote].AskOrders) = 5
          /\ Len(graph[pairs[i].Quote][pairs[i].Base].AskOrders) < 5
    /\ Len(pairs) >= 2

\* C12 (as claimed): for every (base, quote) of an input pair, graph[base][quote]
\* holds the first L asks and bids of the last input pair with that
\* (base, quote), whatever other pairs the input holds, a later pair
\* (quote, base) included (stated here for the pairs with base # quote).
C12_LastOccurrenceWinsAnyInput ==
    GraphReturned =>
      \A i \in 1..Len(pairs) :
        (/\ pairs[i].Base # pairs[i].Quote
         /\ \A j \in (i+1)..Len(pairs) : ~SamePair(i, j)) =>
          /\ HasEdge(graph, pairs[i].Base, pairs[i].Quote)
          /\ IsCappedPrefix(graph[pairs[i].Base][pairs[i].Quote].AskOrders,
                            pairs[i].AskOrders)
          /\ IsCappedPrefix(graph[pairs[i].Base][pairs[i].Quote].BidOrders,
                            pairs[i].BidOrders)

\* C12 (amended): for every (base, quote) of an input pair with base # quote,
\* graph[base][quote] holds the first L asks and bids of the last input pair
\* with that (base, quote), provided no pair (quote, base) comes after it.
C12_LastOccurrenceWins ==
    GraphReturned =>
      \A i \in 1..Len(pairs) :
        (/\ pairs[i].Base # pairs[i].Quote
         /\ \A j \in (i+1)..Len(pairs) : ~SamePair(i, j)
         /\ \A j \in (i+1)..Len(pairs) : ~OppositePair(i, j)) =>
          /\ HasEdge(graph, pairs[i].Base, pairs[i].Quote)
          /\ IsCappedPrefix(graph[pairs[i].Base][pairs[i].Quote].AskOrders,
                            pairs[i].AskOrders)
          /\ IsCappedPrefix(graph[pairs[i].Base][pairs[i].Quote].BidOrders,
                            pairs[i].BidOrders)

\* a pair, its opposite orientation, then a duplicate of the first with other
\* levels, which is the one stored
C12_Witness ==
    /\ GraphReturned
    /\ Len(pairs) = 3
    /\ OppositePair(1, 2)
    /\ SamePair(1, 3)
    /\ pairs[1].Base # pairs[1].Quote
    /\ pairs[1].AskOrders # pairs[3].AskOrders
    /\ pairs[1].BidOrders # pairs[3].BidOrders
    /\ graph[pairs[3].Base][pairs[3].Quote].AskOrders = pairs[3].AskOrders

\* C13 (as claimed): for every input pair list and every currency X the graph
\* returned has no entry graph[X][X].
C13_NoSelfLoop ==
    GraphReturned => \A x \in DOMAIN graph : ~HasEdge(graph, x, x)

(***************************************************************************)
(* Properties of findAllPaths.                                             *)
(***************************************************************************)
PathsReturned == pc \notin {"buildGraph", "findAllPaths"}

NoRepeat(path) == \A i, j \in 1..Len(path) : i # j => path[i] # path[j]

\* C14: every path returned by findAllPaths(graph, start, end, D) begins with
\* start, ends with end, has at least 2 and at most D currencies, holds no
\* currency twice and has a graph edge between consecutive currencies; when
\* start = end no path is returned.
C14_PathSoundness ==
    PathsReturned =>
      /\ \A k \in 1..Len(paths) :
            LET path == paths[k]
            IN  /\ Len(path) >= 2 /\ Len(path) <= maxDepth
                /\ path[1] = baseCurrency
                /\ path[Len(path)] = quoteCurrency
                /\ NoRepeat(path)
                /\ \A i \in 1..(Len(path) - 1) : HasEdge(graph, path[i], path[i+1])
      /\ baseCurrency = quoteCurrency => paths = <<>>

\* several paths came back, one of them of exactly D = 5 currencies, from a
\* graph of six currencies
C14_Witness ==
    /\ PathsReturned
    /\ maxDepth = 5
    /\ Cardinality(DOMAIN graph) >= 6
    /\ Len(paths) >= 3
    /\ \E k \in 1..Len(paths) : Len(paths[k]) = 5
    /\ \E k \in 1..Len(paths) : Len(paths[k]) = 2

RECURSIVE DistinctSeqsFrom(_, _, _)
\* the sequences of at most n + Len(prefix) tokens of S without repetition
\* that extend prefix
DistinctSeqsFrom(S, prefix, n) ==
    IF n = 0 THEN {prefix}
    ELSE {prefix} \cup
         UNION {DistinctSeqsFrom(S, Append(prefix, x), n - 1) :
                  x \in S \ {prefix[i] : i \in 1..Len(prefix)}}

\* the simple paths from start to end of at most depth currencies
SimplePaths(start, end, depth) ==
    IF depth < 2 THEN {}
    ELSE {p \in DistinctSeqsFrom(DOMAIN graph \cup {start}, <<start>>, depth - 1) :
            /\ Len(p) >= 2
            /\ p[Len(p)] = end
            /\ \A i \in 1..(Len(p) - 1) : HasEdge(graph, p[i], p[i+1])}

\* C15: findAllPaths(graph, start, end, D) returns every simple path from start
\* to end of at most D currencies, each exactly once, for every iteration order
\* of the adjacency maps.
C15_PathCompleteness ==
    PathsReturned =>
      /\ {paths[k] : k \in 1..Len(paths)} = SimplePaths(baseCurrency, quoteCurrency, maxDepth)
      /\ \A i, j \in 1..Len(paths) : i # j => paths[i] # paths[j]

\* a simple path of six currencies exists and is left out at D = 5, while
\* several shorter ones are returned
C15_Witness ==
    /\ PathsReturned
    /\ maxDepth = 5
    /\ Len(paths) >= 3
    /\ \E k \in 1..Len(paths) : Len(paths[k]) = 5
    /\ SimplePaths(baseCurrency, quoteCurrency, 6) # SimplePaths(baseCurrency, quoteCurrency, 5)

(***************************************************************************)
(* Properties of calculateOrdersFromPath and of the book's edge cases.     *)
(***************************************************************************)
\* the logged combos of a side, in the order they were appended
LogOfSide(side) == SelectSeq(emitted, LAMBDA e : e.isAsk = side)

\* the levels of the side were built from the logged combos, each carrying
\* its path as enumerated (bid) or reversed (ask)
RoutesOriented(side) ==
    LET levels == SideLevels(virtualPair, side)
        log == LogOfSide(side)
    IN  /\ Len(levels) = Len(log)
        /\ \A k \in 1..Len(levels) :
              LET route == levels[k].Route
                  path == log[k].path
                  n == Len(path)
              IN  /\ Len(route) = n
                  /\ \E j \in 1..Len(paths) : paths[j] = path
                  /\ route[1] = IF side THEN quoteCurrency ELSE baseCurrency
                  /\ route[n] = IF side THEN baseCurrency ELSE quoteCurrency
                  /\ \A i \in 1..n : route[i] = IF side THEN path[n + 1 - i] ELSE path[i]

\* C16: between two calls of calculateOrdersFromPath every bid level built so
\* far carries the enumerated path (from B to Q), every ask level the reversed
\* path (from Q to B), and the enumerated paths still run from B to Q.
C16_RouteOrientation ==
    pc = "pathLoop" =>
      /\ RoutesOriented(TRUE)
      /\ RoutesOriented(FALSE)
      /\ \A j \in 1..Len(paths) :
            paths[j][1] = baseCurrency /\ paths[j][Len(paths[j])] = quoteCurrency

\* levels of two paths, one of them of three currencies, on both sides
C16_Witness ==
    /\ pc = "pathLoop"
    /\ pathIdx > Len(paths)
    /\ Len(paths) >= 2
    /\ \A side \in BOOLEAN :
          /\ \E k \in 1..Len(SideLevels(virtualPair, side)) :
                Len(SideLevels(virtualPair, side)[k].Route) = 3
          /\ \E k \in 1..Len(SideLevels(virtualPair, side)) :
                Len(SideLevels(virtualPair, side)[k].Route) = 2

\* C18: when B or Q is no key of the graph (the empty pair list included) the
\* book returned has no ask and no bid level and the executor returns no fill
\* on either side, for every target.
C18_MissingCurrency ==
    (BookReturned /\ (baseCurrency \notin DOMAIN graph \/ quoteCurrency \notin DOMAIN graph)) =>
      /\ virtualPair.AskOrders = <<>>
      /\ virtualPair.BidOrders = <<>>
      /\ pc = "done" => askFill.route = <<>> /\ bidFill.route = <<>>

\* the executor ran for a target > 0 on the book of a graph that holds B and
\* edges from it, but not Q
C18_Witness ==
    /\ pc = "done"
    /\ RLess(Zero, targetAmount)
    /\ baseCurrency \in DOMAIN graph
    /\ DOMAIN graph[baseCurrency] # {}
    /\ quoteCurrency \notin DOMAIN graph

\* the (price, quantity) of the first min(n, L) levels of an input list
CappedPriceAmounts(input) ==
    [k \in 1..(IF Len(input) < 5 THEN Len(input) ELSE 5) |->
        <<input[k].Price, input[k].Amount>>]

\* the book's sides are the input pair's sides, cut to L levels
BookIsDirectEdge ==
    /\ PriceAmounts(virtualPair.AskOrders) = CappedPriceAmounts(pairs[1].AskOrders)
    /\ PriceAmounts(virtualPair.BidOrders) = CappedPriceAmounts(pairs[1].BidOrders)

\* the first L levels have quantities > 0 and prices in best-first order,
\* neighbours at least the merge tolerance apart
BestFirstSeparated(input, side) ==
    LET n == IF Len(input) < 5 THEN Len(input) ELSE 5
    IN  /\ \A k \in 1..n : RLess(Zero, input[k].Amount)
        /\ \A k \in 1..(n - 1) :
              /\ PriceBefore(input[k].Price, input[k+1].Price, side)
              /\ ~WithinTolerance(input[k].Price, input[k+1].Price)

\* the first L levels have quantities > 0 and no two of them have prices
\* within the merge tolerance
PositiveSeparated(input) ==
    LET n == IF Len(input) < 5 THEN Len(input) ELSE 5
    IN  /\ \A k \in 1..n : RLess(Zero, input[k].Amount)
        /\ \A j, k \in 1..n : j # k => ~WithinTolerance(input[j].Price, input[k].Price)

SinglePairRequest ==
    /\ Len(pairs) = 1
    /\ pairs[1].Base = baseCurrency
    /\ pairs[1].Quote = quoteCurrency

\* C17 (as claimed): when the input is the single pair (B, Q), each side of the
\* book returned for (B, Q) is the same sequence of (price, quantity) as the
\* pair's side cut to L levels, for every level list, in any order (stated
\* here for B # Q, quantities > 0 and prices at least 1e-8 apart).
C17_DirectEdgeAnyLevels ==
    (/\ BookReturned
     /\ SinglePairRequest
     /\ baseCurrency # quoteCurrency
     /\ PositiveSeparated(pairs[1].AskOrders)
     /\ PositiveSeparated(pairs[1].BidOrders)) => BookIsDirectEdge

\* C17 (amended): when the input is the single pair (B, Q) with B # Q and on
\* each side the first L levels have quantities > 0 and prices in best-first
\* order (asks ascending, bids descending), neighbours at least 1e-8 apart,
\* each side of the book returned is the same sequence of (price, quantity) as
\* the pair's side cut to L levels; KNC/ETH asks [(0.0031, 400)] gives the ask
\* book [(0.0031, 400)].
C17_DirectEdge ==
    (/\ BookReturned
     /\ SinglePairRequest
     /\ baseCurrency # quoteCurrency
     /\ BestFirstSeparated(pairs[1].AskOrders, TRUE)
     /\ BestFirstSeparated(pairs[1].BidOrders, FALSE)) =>
      /\ BookIsDirectEdge
      /\ pairs[1].AskOrders = <<Lv(31, 10000, 400)>> =>
            PriceAmounts(virtualPair.AskOrders) = << <<Rat(31, 10000), Rat(400, 1)>> >>

\* a pair with more than L sorted levels on both sides gave a book of L
\* levels on both sides
C17_Witness ==
    /\ BookReturned
    /\ SinglePairRequest
    /\ baseCurrency # quoteCurrency
    /\ BestFirstSeparated(pairs[1].AskOrders, TRUE)
    /\ BestFirstSeparated(pairs[1].BidOrders, FALSE)
    /\ Len(pairs[1].AskOrders) > 5 /\ Len(pairs[1].BidOrders) > 5
    /\ Len(virtualPair.AskOrders) = 5 /\ Len(virtualPair.BidOrders) = 5

(***************************************************************************)
(* Properties of mergeVirtualLevels.                                       *)
(***************************************************************************)
\* the index at which the run of level i starts: the first level of the
\* sorted list whose price level i and all levels between are within the
\* tolerance of
RunStart(sorted) ==
    LET F[i \in 1..Len(sorted)] ==
          IF i = 1 THEN 1
          ELSE IF WithinTolerance(sorted[i].Price, sorted[F[i-1]].Price) THEN F[i-1] ELSE i
    IN  F

\* the start of the k-th run
KthRunStart(sorted, k) ==
    CHOOSE i \in 1..Len(sorted) :
      /\ RunStart(sorted)[i] = i
      /\ Cardinality({j \in 1..i : RunStart(sorted)[j] = j}) = k

RunCount(sorted) == Cardinality({j \in 1..Len(sorted) : RunStart(sorted)[j] = j})

\* the quantities of the levels of the run that starts at index st
RunAmount(sorted, st) ==
    LET F[i \in 0..Len(sorted)] ==
          IF i = 0 THEN Zero
          ELSE IF RunStart(sorted)[i] = st THEN RAdd(F[i-1], sorted[i].Amount) ELSE F[i-1]
    IN  F[Len(sorted)]

FirstOfRunIdentity(side) ==
    LET sorted == SideLevels(sortedPair, side)
        merged == SideLevels(virtualPair, side)
    IN  /\ Len(merged) = RunCount(sorted)
        /\ \A k \in 1..Len(merged) :
              /\ merged[k].Route = sorted[KthRunStart(sorted, k)].Route
              /\ merged[k].LevelPrices = sorted[KthRunStart(sorted, k)].LevelPrices

\* C19 (as claimed): on both sides every merged level has the Route and the
\* LevelPrices of the first level of its run of the sorted list, whether the
\* prices of the run are equal or only within the tolerance.
C19_MergeKeepsFirst ==
    BookReturned => FirstOfRunIdentity(TRUE) /\ FirstOfRunIdentity(FALSE)

RunAmountsSummed(side) ==
    LET sorted == SideLevels(sortedPair, side)
        merged == SideLevels(virtualPair, side)
    IN  /\ Len(merged) = RunCount(sorted)
        /\ \A k \in 1..Len(merged) :
              merged[k].Amount = RunAmount(sorted, KthRunStart(sorted, k))
        /\ SumAmount(merged) = SumAmount(sorted)
        /\ (/\ Len(sorted) = 2
            /\ PriceAmounts(sorted) \in
                 { << <<Rat(1, 20), Rat(100, 1)>>, <<Rat(1, 20), Rat(150, 1)>> >>,
                   << <<Rat(1, 20), Rat(150, 1)>>, <<Rat(1, 20), Rat(100, 1)>> >> })
             => PriceAmounts(merged) = << <<Rat(1, 20), Rat(250, 1)>> >>

\* C20: on both sides the quantity of a merged level is the sum of the
\* quantities of the levels of its run, the total quantity of the side is
\* unchanged, and the levels (0.05, 100) and (0.05, 150) of two paths give the
\* single level (0.05, 250).
C20_MergeSumsQuantities ==
    BookReturned => RunAmountsSummed(TRUE) /\ RunAmountsSummed(FALSE)

\* levels at 0.05 of two paths were merged into (0.05, 250), next to a run
\* of its own
C20_Witness ==
    /\ BookReturned
    /\ Len(sortedPair.AskOrders) = 3
    /\ Len(virtualPair.AskOrders) = 2
    /\ \E k \in 1..2 :
          /\ virtualPair.AskOrders[k].Price = Rat(1, 20)
          /\ virtualPair.AskOrders[k].Amount = Rat(250, 1)
    /\ \E i, j \in 1..3 :
          /\ sortedPair.AskOrders[i].Price = sortedPair.AskOrders[j].Price
          /\ sortedPair.AskOrders[i].Route # sortedPair.AskOrders[j].Route

(***************************************************************************)
(* Independence of the iteration and sort orders.                          *)
(***************************************************************************)
\* the levels of one run of calculateOrdersFromPath(graph, path, side), the
\* candidates left by the sort in one of the orders it can leave them in
ReferenceLevels(path, side) ==
    LET allHopLevels == hopLevelsOf(graph, path, side)
        sorted == CHOOSE c \in sortCandidatesByPrice(
                      generateAllRouteCandidates(allHopLevels, 1, <<>>, <<>>), side) : TRUE
    IN  levelsOfCombos(greedyLoop(allHopLevels, sorted), path, side)

\* the side of the book of one run of buildVirtualOrderbook, every map
\* iterated and every sort left in one of its possible orders
ReferenceSide(side) ==
    LET ps == CHOOSE l \in findAllPaths(graph, baseCurrency, quoteCurrency, maxDepth) : TRUE
        F[i \in 0..Len(ps)] ==
          IF i = 0 THEN <<>> ELSE F[i-1] \o ReferenceLevels(ps[i], side)
        sorted == CHOOSE l \in sortVirtualLevels(F[Len(ps)], side) : TRUE
    IN  mergeVirtualLevels(sorted)

\* C21 (as claimed): for a fixed graph and (B, Q) the book returned (price,
\* quantity, route and per-hop prices of every level of each side) is the same
\* for every order of iteration of the maps and every order the sorts leave
\* equal prices in: every run returns the book of the reference run.
C21_OrderIndependence ==
    BookReturned =>
      /\ virtualPair.AskOrders = ReferenceSide(TRUE)
      /\ virtualPair.BidOrders = ReferenceSide(FALSE)

(***************************************************************************)
(* Properties of the greedy loop of one path and side.                     *)
(***************************************************************************)
\* the candidate the next iteration of the greedy loop visits
GreedyPending == pc = "greedy" /\ candIdx <= Len(candidates)

\* the least of the current residuals of the levels the candidate references
MinResidual(candidate) ==
    LET R == {remainingVolumes[h][candidate.levelIndices[h]] :
                h \in 1..Len(candidate.levelIndices)}
    IN  CHOOSE v \in R : \A w \in R : RLeq(v, w)

\* C22: an iteration of the greedy loop emits a level if and only if the least
\* current residual of the candidate's levels is > 0; the quantity emitted is
\* that least residual, it is deducted from every referenced residual and from
\* no other, and afterwards a referenced residual is 0; otherwise nothing is
\* emitted and no residual changes.
C22_GreedyEmission ==
    [][GreedyPending =>
         LET candidate == candidates[candIdx]
             idx == candidate.levelIndices
             vol == MinResidual(candidate)
         IN  IF RLess(Zero, vol)
             THEN /\ result' = Append(result, PriceVolumeCombo(candidate.prices, vol))
                  /\ Len(emitted') = Len(emitted) + 1
                  /\ emitted'[Len(emitted')].depth = vol
                  /\ \A h \in 1..Len(remainingVolumes) :
                       \A j \in 1..Len(remainingVolumes[h]) :
                         remainingVolumes'[h][j] =
                           IF idx[h] = j THEN RSub(remainingVolumes[h][j], vol)
                                         ELSE remainingVolumes[h][j]
                  /\ \E h \in 1..Len(idx) : remainingVolumes'[h][idx[h]] = Zero
             ELSE /\ result' = result
                  /\ emitted' = emitted
                  /\ remainingVolumes' = remainingVolumes]_vars

\* a candidate is pending whose least residual is > 0 and below its
\* creation-time maxVolume, after a level was emitted and a candidate was
\* skipped, and before a candidate that shares a level with it
C22_Witness ==
    /\ GreedyPending
    /\ Len(result) >= 1
    /\ Len(result) < candIdx - 1
    /\ RLess(Zero, MinResidual(candidates[candIdx]))
    /\ RLess(MinResidual(candidates[candIdx]), candidates[candIdx].maxVolume)
    /\ \E k \in (candIdx + 1)..Len(candidates) :
          \E h \in 1..Len(candidates[k].levelIndices) :
             candidates[k].levelIndices[h] = candidates[candIdx].levelIndices[h]

\* the combos the current call of calculateOrdersFromPath has emitted so far
CurrentLog == SubSeq(emitted, Len(emitted) - Len(result) + 1, Len(emitted))

\* the quantity the current call has emitted on level j of hop h
LevelUsed(h, j) ==
    LET log == CurrentLog
        F[k \in 0..Len(log)] ==
          IF k = 0 THEN Zero
          ELSE IF log[k].levelIndices[h] = j THEN RAdd(F[k-1], log[k].depth) ELSE F[k-1]
    IN  F[Len(log)]

\* the original quantity of level j of hop h of the current path and side
OriginalAmount(h, j) ==
    SideLevels(graph[paths[pathIdx][h]][paths[pathIdx][h+1]], isAsk)[j].Amount

ResidualIsOriginalLessUsed(h, j) ==
    remainingVolumes[h][j] = RSub(OriginalAmount(h, j), LevelUsed(h, j))

\* C23 (as claimed): at every step of the greedy loop every residual is >= 0
\* and equals the level's original quantity less the quantities emitted so far
\* by candidates using it, so these sum to at most the original quantity.
C23_ResidualsNonNegative ==
    pc = "greedy" =>
      \A h \in 1..Len(remainingVolumes) : \A j \in 1..Len(remainingVolumes[h]) :
        /\ RLeq(Zero, remainingVolumes[h][j])
        /\ ResidualIsOriginalLessUsed(h, j)
        /\ RLeq(LevelUsed(h, j), OriginalAmount(h, j))

\* C23 (amended): at every step of the greedy loop every residual of a level
\* whose original quantity is >= 0 is >= 0, every residual equals the level's
\* original quantity less the quantities emitted so far by candidates using
\* it, and for a level of original quantity >= 0 these sum to at most it (a
\* level of quantity < 0 is never used and keeps its quantity as residual).
C23_Residuals ==
    pc = "greedy" =>
      \A h \in 1..Len(remainingVolumes) : \A j \in 1..Len(remainingVolumes[h]) :
        /\ ResidualIsOriginalLessUsed(h, j)
        /\ RLeq(Zero, OriginalAmount(h, j)) =>
              /\ RLeq(Zero, remainingVolumes[h][j])
              /\ RLeq(LevelUsed(h, j), OriginalAmount(h, j))
        /\ RLess(OriginalAmount(h, j), Zero) =>
              LevelUsed(h, j) = Zero /\ remainingVolumes[h][j] = OriginalAmount(h, j)

\* the loop has ended with a level drawn on by two emitted combos and left at
\* 0, next to a level of quantity < 0
C23_Witness ==
    /\ pc = "greedy"
    /\ candIdx > Len(candidates)
    /\ \E h \in 1..Len(remainingVolumes) : \E j \in 1..Len(remainingVolumes[h]) :
          /\ remainingVolumes[h][j] = Zero
          /\ Cardinality({k \in 1..Len(CurrentLog) : CurrentLog[k].levelIndices[h] = j}) >= 2
    /\ \E h \in 1..Len(remainingVolumes) : \E j \in 1..Len(remainingVolumes[h]) :
          RLess(remainingVolumes[h][j], Zero)

\* candidate k has the composite price of the pending candidate and shares
\* with it the level of hop h
EqualPriceSharing(k, h) ==
    /\ candidates[k].finalPrice = candidates[candIdx].finalPrice
    /\ candidates[k].levelIndices[h] = candidates[candIdx].levelIndices[h]

AdjacentBreaks(sorted) ==
    {i \in 1..(Len(sorted) - 1) : ~WithinTolerance(sorted[i].Price, sorted[i+1].Price)}

MergedAdjacent(side) ==
    LET sorted == SideLevels(sortedPair, side)
        merged == SideLevels(virtualPair, side)
    IN  /\ Len(sorted) > 0 => Len(merged) = 1 + Cardinality(AdjacentBreaks(sorted))
        /\ (Len(sorted) = 3 /\ AdjacentBreaks(sorted) = {}) => Len(merged) = 1

\* C25 (as claimed): on both sides any two neighbours of the sorted list whose
\* prices differ by less than 1e-8 end in the same merged level, so a chain
\* p1, p2, p3 of neighbours within the tolerance ends in a single level.
C25_AdjacentMerge ==
    BookReturned => MergedAdjacent(TRUE) /\ MergedAdjacent(FALSE)

MergedAnchored(side) ==
    LET sorted == SideLevels(sortedPair, side)
        merged == SideLevels(virtualPair, side)
    IN  /\ Len(merged) = RunCount(sorted)
        /\ \A k \in 1..Len(merged) :
              merged[k].Price = sorted[KthRunStart(sorted, k)].Price
        /\ \A k \in 1..(Len(merged) - 1) :
              ~WithinTolerance(merged[k].Price, merged[k+1].Price)
        /\ (Len(sorted) = 3 /\ AdjacentBreaks(sorted) = {}) =>
              Len(merged) = IF WithinTolerance(sorted[1].Price, sorted[3].Price)
                            THEN 1 ELSE 2

\* C25 (amended): on both sides a level of the sorted list joins the level
\* being built exactly when its price differs by less than 1e-8 from the
\* price of the FIRST level of that run, whose price the merged level keeps;
\* no two neighbours of the returned side are within the tolerance; a chain
\* p1, p2, p3 of neighbours within the tolerance ends in a single level when
\* |p1 - p3| < 1e-8 and in two levels otherwise.
C25_AnchoredMerge ==
    BookReturned => MergedAnchored(TRUE) /\ MergedAnchored(FALSE)

\* a chain of three ask levels, neighbours within the tolerance and the ends
\* not, was merged into two levels
C25_Witness ==
    /\ BookReturned
    /\ Len(sortedPair.AskOrders) = 3
    /\ AdjacentBreaks(sortedPair.AskOrders) = {}
    /\ ~WithinTolerance(sortedPair.AskOrders[1].Price, sortedPair.AskOrders[3].Price)
    /\ Len(virtualPair.AskOrders) = 2
    /\ virtualPair.AskOrders[2].Price = sortedPair.AskOrders[3].Price

(***************************************************************************)
(* The candidates of a path and side.                                      *)
(***************************************************************************)
\* the level lists of the hops of the path and side being processed
CurrentHopLevels == hopLevelsOf(graph, paths[pathIdx], isAsk)

\* one level index per hop
IndexTuples(L) ==
    {t \in [1..Len(L) -> 1..MAX_LEVELS_PER_PAIR] : \A h \in 1..Len(L) : t[h] <= Len(L[h])}

\* v is the least original quantity of the levels t names
IsMinQuantity(L, t, v) ==
    /\ \E h \in 1..Len(L) : L[h][t[h]].Amount = v
    /\ \A h \in 1..Len(L) : RLeq(v, L[h][t[h]].Amount)

CandidatesOf(t) == {c \in 1..Len(candidates) : candidates[c].levelIndices = t}

\* C26: the candidates of a path and side are exactly one for every tuple of
\* level indices (one per hop) whose least original quantity is > 0 and none
\* for the other tuples; a candidate has the prices of its levels, their
\* product as finalPrice and the least original quantity as maxVolume.
C26_CandidateGeneration ==
    pc = "greedy" =>
      LET L == CurrentHopLevels
      IN  /\ \A t \in IndexTuples(L) :
                Cardinality(CandidatesOf(t)) =
                  IF \E v \in {L[h][t[h]].Amount : h \in 1..Len(L)} :
                        IsMinQuantity(L, t, v) /\ RLess(Zero, v)
                  THEN 1 ELSE 0
          /\ \A c \in 1..Len(candidates) :
                /\ candidates[c].levelIndices \in IndexTuples(L)
                /\ Len(candidates[c].prices) = Len(L)
                /\ \A h \in 1..Len(L) :
                      candidates[c].prices[h] = L[h][candidates[c].levelIndices[h]].Price
                /\ candidates[c].finalPrice = Product(candidates[c].prices)
                /\ IsMinQuantity(L, candidates[c].levelIndices, candidates[c].maxVolume)

\* two hops of two levels each: one tuple has a level of quantity <= 0 and no
\* candidate, and one candidate has its maxVolume from the second hop only
C26_Witness ==
    /\ pc = "greedy"
    /\ candIdx = 1
    /\ Len(CurrentHopLevels) = 2
    /\ Len(CurrentHopLevels[1]) = 2 /\ Len(CurrentHopLevels[2]) = 2
    /\ \E t \in IndexTuples(CurrentHopLevels) : CandidatesOf(t) = {}
    /\ \E c \in 1..Len(candidates) :
          /\ candidates[c].maxVolume
               = CurrentHopLevels[2][candidates[c].levelIndices[2]].Amount
          /\ RLess(candidates[c].maxVolume,
                   CurrentHopLevels[1][candidates[c].levelIndices[1]].Amount)
          /\ candidates[c].finalPrice # candidates[c].prices[1]

(***************************************************************************)
(* Paths with an empty list or a missing edge.                             *)
(***************************************************************************)
AllPathsProcessed == pc = "pathLoop" /\ pathIdx > Len(paths)

\* the levels the path has put on the side of the book being collected
ContributedLevels(path, side) ==
    {k \in 1..Len(SideLevels(virtualPair, side)) :
        SideLevels(virtualPair, side)[k].Route = truePath(path, side)}

\* the greedy loop emitted a level for the path on the side
SideEmitted(path, side) ==
    \E e \in 1..Len(emitted) : emitted[e].path = path /\ emitted[e].isAsk = side

NoLevelOnSide(path, side) ==
    ~SideEmitted(path, side) /\ ContributedLevels(path, side) = {}

SideLists(path, side) ==
    [h \in 1..(Len(path) - 1) |->
        IF side THEN graph[path[h]][path[h+1]].AskOrders
                ELSE graph[path[h]][path[h+1]].BidOrders]

HasEmptyList(path, side) ==
    \E h \in 1..(Len(path) - 1) : Len(SideLists(path, side)[h]) = 0

\* every hop has a level of quantity > 0 on the side
EveryHopFillable(path, side) ==
    \A h \in 1..(Len(path) - 1) :
      \E j \in 1..Len(SideLists(path, side)[h]) :
        RLess(Zero, SideLists(path, side)[h][j].Amount)

\* C27: a path with an edge whose ask list is empty puts no ask level in the
\* book while its bid levels are still produced from the bid lists (they are
\* produced exactly when every hop has a bid level of quantity > 0), and the
\* same with the sides exchanged; a path with a missing edge puts no level on
\* either side.
C27_EmptySide ==
    AllPathsProcessed =>
      \A i \in 1..Len(paths) :
        LET path == paths[i]
        IN  IF Len(path) < 2 \/ ~PathEdgesExist(graph, path)
            THEN NoLevelOnSide(path, TRUE) /\ NoLevelOnSide(path, FALSE)
            ELSE \A side \in BOOLEAN :
                   /\ HasEmptyList(path, side) => NoLevelOnSide(path, side)
                   /\ HasEmptyList(path, side) =>
                        (EveryHopFillable(path, ~side)
                           <=> (/\ SideEmitted(path, ~side)
                                /\ ContributedLevels(path, ~side) # {}))

\* a two-hop path whose first edge has no ask has put bid levels in the book
C27_Witness ==
    /\ AllPathsProcessed
    /\ Len(paths[1]) = 3
    /\ PathEdgesExist(graph, paths[1])
    /\ HasEmptyList(paths[1], TRUE)
    /\ ~HasEmptyList(paths[1], FALSE)
    /\ Len(virtualPair.AskOrders) = 0
    /\ Len(virtualPair.BidOrders) >= 2
    /\ SideEmitted(paths[1], FALSE)

(***************************************************************************)
(* Route and per-hop prices of a returned level.                           *)
(***************************************************************************)
SelfConsistent(level) ==
    /\ Len(level.LevelPrices) = Len(level.Route) - 1
    /\ level.Price = Product(level.LevelPrices)

\* C28: every level of the book buildVirtualOrderbook returns, on both sides,
\* has one per-hop price for every hop of its Route, and its Price is the
\* product of its per-hop prices.
C28_LevelSelfConsistency ==
    BookReturned =>
      \A side \in BOOLEAN :
        \A k \in 1..Len(SideLevels(virtualPair, side)) :
          SelfConsistent(SideLevels(virtualPair, side)[k])

(***************************************************************************)
(* Properties of FindOptimalTradingRoutes (Problem 1).                     *)
(***************************************************************************)
RoutesReturned == pc = "routesDone"

\* the paths of the graph from base to quote that hold no currency twice
RoutePaths ==
    {p \in DistinctSeqsFrom(DOMAIN graph \cup {baseCurrency}, <<baseCurrency>>,
                            Cardinality(DOMAIN graph)) :
        /\ p[Len(p)] = quoteCurrency
        /\ \A i \in 1..(Len(p) - 1) : HasEdge(graph, p[i], p[i+1])}

\* the product of the Ask (side) or Bid (not side) prices of the edges of p
PriceAlong(p, side) ==
    LET F[i \in 0..Len(p)] ==
          IF i <= 1 THEN One
          ELSE RMul(F[i-1], IF side THEN graph[p[i-1]][p[i]].Ask
                                    ELSE graph[p[i-1]][p[i]].Bid)
    IN  F[Len(p)]

\* the cycles of the graph that hold no currency twice
RouteCycles ==
    {c \in UNION {DistinctSeqsFrom(DOMAIN graph, <<n>>, Cardinality(DOMAIN graph)) :
                     n \in DOMAIN graph} :
        /\ HasEdge(graph, c[Len(c)], c[1])
        /\ \A i \in 1..(Len(c) - 1) : HasEdge(graph, c[i], c[i+1])}

\* no cycle has a product of edge weights < 1, the weight of an edge being
\* its Ask on the ask side and 1/Bid on the bid side
NoArbitrage(side) ==
    \A c \in RouteCycles :
      LET closed == Append(c, c[1])
      IN  IF side THEN RLeq(One, PriceAlong(closed, TRUE))
                  ELSE RLeq(PriceAlong(closed, FALSE), One)

\* C29: when the graph has no arbitrage cycle and a path from base to quote,
\* the ask route is a path of the graph from base to quote (stored from the
\* quote to the base) whose price is the product of the Ask prices of its
\* edges and the least such product over all paths, and the bid route is a
\* path from base to quote whose price is the product of the Bid prices of
\* its edges and the greatest such product over all paths.
C29_RouteOptimality ==
    (RoutesReturned /\ RoutePaths # {}) =>
      /\ NoArbitrage(TRUE) =>
           /\ Len(bestAskRoute.Route) > 0 => ReversePath(bestAskRoute.Route) \in RoutePaths
           /\ baseCurrency # quoteCurrency => Len(bestAskRoute.Route) >= 2
           /\ bestAskRoute.Price = PriceAlong(ReversePath(bestAskRoute.Route), TRUE)
           /\ \A p \in RoutePaths : RLeq(bestAskRoute.Price, PriceAlong(p, TRUE))
      /\ NoArbitrage(FALSE) =>
           /\ Len(bestBidRoute.Route) > 0 => bestBidRoute.Route \in RoutePaths
           /\ baseCurrency # quoteCurrency => Len(bestBidRoute.Route) >= 2
           /\ bestBidRoute.Price = PriceAlong(bestBidRoute.Route, FALSE)
           /\ \A p \in RoutePaths : RLeq(PriceAlong(p, FALSE), bestBidRoute.Price)

\* without arbitrage the best ask goes through two hops and beats the
\* direct pair, while the best bid is the direct pair and beats the two hops
C29_Witness ==
    /\ RoutesReturned
    /\ NoArbitrage(TRUE) /\ NoArbitrage(FALSE)
    /\ Cardinality(RoutePaths) >= 2
    /\ Len(bestAskRoute.Route) = 3
    /\ Len(bestBidRoute.Route) = 2
    /\ \E p \in RoutePaths : RLess(bestAskRoute.Price, PriceAlong(p, TRUE))
    /\ \E p \in RoutePaths : RLess(PriceAlong(p, FALSE), bestBidRoute.Price)

\* C30: when the graph has no path from base to quote, also when base or
\* quote is in no pair, both routes are the empty route with price 0.
C30_NoRoute ==
    (RoutesReturned /\ RoutePaths = {}) =>
      /\ bestAskRoute = TradingRoute(<<>>, Zero)
      /\ bestBidRoute = TradingRoute(<<>>, Zero)

====
